---- MODULE Spec2Model ----
(***************************************************************************)
(* A model of the kernel core of huynq55-v2/cat: the bitmap physical frame *)
(* allocator (kernel/src/pmm.rs), the keyboard scancode ring and the       *)
(* interrupt/lock discipline (kernel/src/interrupts.rs, main.rs,           *)
(* writer.rs, screen.rs, shared/src/serial.rs) and the syscall dispatcher  *)
(* (kernel/src/syscalls.rs).                                               *)
(*                                                                         *)
(* Each subsystem has its own specification (SpecSys, SpecPmm, ...) over   *)
(* the shared variables; a specification leaves the other subsystems'      *)
(* variables at their initial values.                                      *)
(***************************************************************************)
EXTENDS Integers, Sequences, FiniteSets, TLC

(***************************************************************************)
(* 64-bit unsigned integers.  TLC's integers are 32 bits wide, so a u64 is *)
(* a tuple of 8 bytes, least significant first, and the arithmetic the     *)
(* kernel does on u64 values is done byte by byte, modulo 2^64.            *)
(***************************************************************************)
U64Len == 8

\* the u64 with the value n, for 0 <= n < 2^31
U64(n) ==
    << n % 256, (n \div 256) % 256, (n \div 65536) % 256,
       (n \div 16777216) % 256, 0, 0, 0, 0 >>

RECURSIVE AddFrom(_, _, _, _)
AddFrom(a, b, i, carry) ==
    IF i > U64Len THEN << >>
    ELSE LET s == a[i] + b[i] + carry
         IN  << s % 256 >> \o AddFrom(a, b, i + 1, s \div 256)

\* a + b modulo 2^64
wrapping_add(a, b) == AddFrom(a, b, 1, 0)

RECURSIVE CarryFrom(_, _, _, _)
CarryFrom(a, b, i, carry) ==
    IF i > U64Len THEN carry
    ELSE CarryFrom(a, b, i + 1, (a[i] + b[i] + carry) \div 256)

\* a + b does not fit in 64 bits
AddOverflows(a, b) == CarryFrom(a, b, 1, 0) = 1

\* !a
U64Not(a) == [i \in 1..U64Len |-> 255 - a[i]]

\* the bit pattern of the i64 value -n (two's complement), for 0 < n < 2^31
I64Neg(n) == wrapping_add(U64Not(U64(n)), U64(1))

\* a - b modulo 2^64
wrapping_sub(a, b) == wrapping_add(wrapping_add(a, U64Not(b)), U64(1))

U64Lt(a, b) ==
    \E i \in 1..U64Len :
        /\ a[i] < b[i]
        /\ \A j \in (i + 1)..U64Len : a[j] = b[j]

U64Le(a, b) == a = b \/ U64Lt(a, b)

\* a & !0xFFF
AndNotFFF(a) == [a EXCEPT ![1] = 0, ![2] = a[2] - (a[2] % 16)]

\* a & 0xFFF = 0
IsPageAligned(a) == a[1] = 0 /\ a[2] % 16 = 0

\* the value is negative when read as an i64
IsNegativeI64(a) == a[U64Len] >= 128

\* the sum of the byte products that land on byte k of a * b
MulColumn(a, b, k) ==
    LET RECURSIVE Sum(_)
        Sum(i) == IF i > k THEN 0 ELSE a[i] * b[k + 1 - i] + Sum(i + 1)
    IN  Sum(1)

RECURSIVE MulFrom(_, _, _, _)
MulFrom(a, b, k, carry) ==
    IF k > U64Len THEN << >>
    ELSE LET s == MulColumn(a, b, k) + carry
         IN  << s % 256 >> \o MulFrom(a, b, k + 1, s \div 256)

\* a * b modulo 2^64
wrapping_mul(a, b) == MulFrom(a, b, 1, 0)

U64Max == [i \in 1..U64Len |-> 255]

(***************************************************************************)
(* State.                                                                  *)
(***************************************************************************)
VARIABLES
    \* --- syscalls.rs ---
    CURRENT_BRK,      \* static mut CURRENT_BRK (syscalls.rs:47)
    MMAP_NEXT,        \* static mut MMAP_NEXT of sys_mmap (syscalls.rs:379)
    SEED,             \* static mut SEED of sys_getrandom (syscalls.rs:519)
    rax,              \* the value the last returned syscall left in RAX
    sc_state,         \* "user": in ring 3; "halted": exit's hlt loop; "panicked"; "faulted"
    sc_call,          \* the last dispatched call: number, arguments, returned or not
    random_bytes,     \* bytes produced by getrandom so far
    pool_allocs,      \* mmap calls that advanced MMAP_NEXT so far
    overflow_checks,  \* the build: TRUE panics on integer overflow, FALSE wraps
    FS_BASE,          \* the FS base MSR (FsBase)
    GS_BASE,          \* the GS base MSR (GsBase)
    user_buf,         \* user memory: the bytes at address USER_BUF
    stored,           \* the last u64 a handler stored to user memory
    screen_out,       \* bytes the last call's sys_write drew on the framebuffer
    serial_out,       \* bytes the last call's sys_write sent to the serial port
    kernel_log,       \* the lines the last call logged: format and arguments
    entry_regs,       \* the registers at the last syscall instruction
    exit_regs,        \* the registers at the last sysretq, or in a handler
                      \* that does not return, and the words left on the
                      \* kernel syscall stack
    \* --- pmm.rs ---
    memory_map,       \* the firmware memory map BootInfo points at
    max_phys_memory,  \* BootInfo.max_phys_memory
    pmm_state,        \* "uninit", "ready" after init, "panicked"
    bitmap,           \* BitmapPmm.bitmap: word index -> the set of bits that are 1
    total_frames,     \* BitmapPmm.total_frames
    bitmap_size_u64,  \* BitmapPmm.bitmap_size_u64
    bitmap_start_addr,\* BitmapPmm.bitmap_start_addr
    post_init,        \* the bitmap as init left it
    held,             \* <<frame, caller>>: returned to caller, not freed since
    mismatched,       \* some free_frame was given a frame nobody held
    pmm_call,         \* the last allocator call and what it returned
    \* --- the CPU and the kernel's control flow (main.rs, interrupts.rs) ---
    interrupts_enabled, \* RFLAGS.IF: maskable interrupts are delivered
    locks,            \* the locks that are held
    stack,            \* the call stack: [fn, pc, saved, arg], innermost last
    halted,           \* the CPU sits in hlt until the next interrupt
    \* --- interrupts.rs ---
    TICKS,            \* static TICKS
    buffer,           \* KEYBOARD_BUFFER.buffer: index -> byte
    head,             \* KEYBOARD_BUFFER.head
    tail,             \* KEYBOARD_BUFFER.tail
    port60,           \* the byte the keyboard controller holds at port 0x60
    irq_scancode,     \* keyboard_handler's local scancode
    keys_left,        \* keyboard interrupts the keyboard will still raise
    ticks_left,       \* timer interrupts the PIT will still raise
    accepted,         \* the bytes add_scancode stored, in order
    popped,           \* the bytes pop_scancode returned, in order
    \* --- locals of _start and init_heap ---
    scancode,         \* _start's scancode: -1 for None
    current_ticks,    \* _start's current_ticks
    last_tick,        \* _start's last_tick
    heap_page,        \* init_heap: pages of the heap range mapped so far
    tables,           \* page tables map_to has created so far
    \* --- elf_loader.rs ---
    elf_header,       \* the header fields of USER_ELF_BYTES setup_user_stack reads
    stack_state,      \* "none", "ready" after setup_user_stack, "panicked"
    user_rsp,         \* the stack pointer setup_user_stack returned
    stack_map,        \* the user stack's page table entries: page -> frame
    stack_words,      \* user memory: the u64 each written address holds
    stack_written,    \* the addresses write_to_stack was called with
    program_headers,  \* the program headers of USER_ELF_BYTES, in file order
    page_table,       \* user pages the mapper has mapped: page -> frame and flags
    page_data,        \* per mapped page, the segments whose file bytes were
                      \* copied into it, in order; << >>: all zero
    tables_built,     \* the page tables map_to has allocated for user pages
    load_state,       \* where load_user_elf is: "none", "headers", "segment",
                      \* "copy", "pool", "heap", "done", "panicked"
    load_seg,         \* the program header the loop is at
    load_page,        \* the page the mapping loop is at
    lock_flag,        \* Spinlock.lock, the AtomicBool
    lock_data,        \* Spinlock.data, a counter the holders increment
    ctx_pc,           \* per context: "idle", "spin" (in lock()), "guard",
                      \* "write" (holding a SpinlockGuard), "drop"
    ctx_seen          \* per context, the data it read through its guard

sysVars == << CURRENT_BRK, MMAP_NEXT, SEED, rax, sc_state, sc_call,
              random_bytes, pool_allocs, overflow_checks, FS_BASE, GS_BASE,
              user_buf, stored, screen_out, serial_out, kernel_log,
              entry_regs, exit_regs >>

pmmVars == << memory_map, max_phys_memory, pmm_state, bitmap, total_frames,
              bitmap_size_u64, bitmap_start_addr, post_init, held, mismatched,
              pmm_call >>

flowVars == << interrupts_enabled, locks, stack, halted, TICKS, buffer, head, tail, port60,
               irq_scancode, keys_left, ticks_left, accepted, popped, scancode,
               current_ticks, last_tick, heap_page, tables >>

loadVars == << program_headers, page_table, page_data, tables_built,
               load_state, load_seg, load_page >>

spinVars == << lock_flag, lock_data, ctx_pc, ctx_seen >>

elfVars == << elf_header, stack_state, user_rsp, stack_map, stack_words,
              stack_written, loadVars, spinVars >>

vars == << sysVars, pmmVars, flowVars, elfVars >>

(***************************************************************************)
(* The physical frame allocator (kernel/src/pmm.rs).                       *)
(***************************************************************************)
PAGE_SIZE == 4096
\* the width of a bitmap word (u64)
WORD_BITS == 64
\* the memory type of ConventionalMemory
CONVENTIONAL == 7

\* a word with every bit set (!0)
ALL_ONES == 0..(WORD_BITS - 1)

\* !entry
Invert(entry) == ALL_ONES \ entry

\* the index of the highest set bit of a nonzero word
highest_set_bit(word) == CHOOSE b \in word : \A c \in word : b >= c

\* the index of the lowest set bit of a nonzero word
trailing_zeros(word) == CHOOSE b \in word : \A c \in word : b <= c

\* mark_used without the write: the frame stays free
mark_used_dropped(bm, frame_idx) == bm

mark_used(bm, frame_idx) ==
    LET word_idx == frame_idx \div WORD_BITS
        bit_idx == frame_idx % WORD_BITS
    IN  [bm EXCEPT ![word_idx] = @ \cup {bit_idx}]

mark_free(bm, frame_idx) ==
    LET word_idx == frame_idx \div WORD_BITS
        bit_idx == frame_idx % WORD_BITS
    IN  [bm EXCEPT ![word_idx] = @ \ {bit_idx}]

RECURSIVE UsedFrom(_, _, _, _)
UsedFrom(bm, start_frame, page_count, i) ==
    IF i >= page_count THEN bm
    ELSE UsedFrom(mark_used(bm, start_frame + i), start_frame, page_count, i + 1)

\* mark_region_used forgetting the region
mark_region_used_skipped(bm, start_addr, page_count) == bm

mark_region_used(bm, start_addr, page_count) ==
    UsedFrom(bm, start_addr \div PAGE_SIZE, page_count, 0)

RECURSIVE FreeFrom(_, _, _, _, _)
FreeFrom(bm, frames, start_frame, page_count, i) ==
    IF i >= page_count THEN bm
    ELSE FreeFrom(IF start_frame + i < frames
                  THEN mark_free(bm, start_frame + i)
                  ELSE bm,
                  frames, start_frame, page_count, i + 1)

\* frames: total_frames
mark_region_free(bm, frames, start_addr, page_count) ==
    FreeFrom(bm, frames, start_addr \div PAGE_SIZE, page_count, 0)

\* step 2 of init without the test on phys_start: frame 0 may take the
\* bitmap
RECURSIVE FindBitmapRegion_any_start(_, _, _)
FindBitmapRegion_any_start(map, bitmap_size_bytes, i) ==
    IF i > Len(map) THEN -1
    ELSE IF /\ map[i].type_ = CONVENTIONAL
            /\ map[i].page_count * PAGE_SIZE >= bitmap_size_bytes
    THEN map[i].phys_start
    ELSE FindBitmapRegion_any_start(map, bitmap_size_bytes, i + 1)

\* step 2 of init: the physical start of the first Conventional entry, from
\* entry i on, that does not start at 0 and is big enough; -1 (u64::MAX in
\* the code) when there is none
RECURSIVE FindBitmapRegion(_, _, _)
FindBitmapRegion(map, bitmap_size_bytes, i) ==
    IF i > Len(map) THEN -1
    ELSE IF /\ map[i].type_ = CONVENTIONAL
            /\ map[i].phys_start # 0
            /\ map[i].page_count * PAGE_SIZE >= bitmap_size_bytes
    THEN map[i].phys_start
    ELSE FindBitmapRegion(map, bitmap_size_bytes, i + 1)

\* step 4 of init: free the frames of every Conventional entry, in map order
RECURSIVE FreeConventional(_, _, _, _)
FreeConventional(bm, frames, map, i) ==
    IF i > Len(map) THEN bm
    ELSE FreeConventional(
            IF map[i].type_ = CONVENTIONAL
            THEN mark_region_free(bm, frames, map[i].phys_start,
                                  map[i].page_count)
            ELSE bm,
            frames, map, i + 1)

\* the bitmap BitmapPmm::init builds for a map, placed at bitmap_phys_addr
InitBitmap(map, frames, size_u64, bitmap_phys_addr) ==
    LET bitmap_size_bytes == size_u64 * 8
        filled == [w \in 0..(size_u64 - 1) |-> ALL_ONES]
        freed == FreeConventional(filled, frames, map, 1)
        bitmap_pages == (bitmap_size_bytes + PAGE_SIZE - 1) \div PAGE_SIZE
        locked == mark_region_used(freed, bitmap_phys_addr, bitmap_pages)
    IN  mark_used(locked, 0)

NoPmmCall == [op |-> "none", arg |-> 0, ret |-> -1]

\* pmm::init(boot_info...): sizes the bitmap, places it, builds it; panics
\* when no Conventional region can hold it
pmm_init ==
    /\ pmm_state = "uninit"
    /\ LET frames == max_phys_memory \div PAGE_SIZE
           size_u64 == (frames + (WORD_BITS - 1)) \div WORD_BITS
           bitmap_phys_addr == FindBitmapRegion(memory_map, size_u64 * 8, 1)
       IN  /\ total_frames' = frames
           /\ bitmap_size_u64' = size_u64
           /\ IF bitmap_phys_addr = -1
              THEN /\ pmm_state' = "panicked"
                   /\ UNCHANGED << bitmap, bitmap_start_addr, post_init >>
              ELSE /\ pmm_state' = "ready"
                   /\ bitmap_start_addr' = bitmap_phys_addr
                   /\ bitmap' = InitBitmap(memory_map, frames, size_u64,
                                           bitmap_phys_addr)
                   /\ post_init' = bitmap'
    /\ pmm_call' = [NoPmmCall EXCEPT !.op = "init"]
    /\ UNCHANGED << memory_map, max_phys_memory, held, mismatched >>

\* allocate_frame_internal scanning the first word only
RECURSIVE ScanFirstWordOnly(_, _, _, _)
ScanFirstWordOnly(bm, frames, size_u64, idx) ==
    IF idx >= 1 \/ idx >= size_u64 THEN [ret |-> -1, bitmap |-> bm]
    ELSE IF bm[idx] # ALL_ONES
    THEN LET frame_idx == idx * WORD_BITS + trailing_zeros(Invert(bm[idx]))
         IN  IF frame_idx >= frames
             THEN [ret |-> -1, bitmap |-> bm]
             ELSE [ret |-> frame_idx * PAGE_SIZE,
                   bitmap |-> mark_used(bm, frame_idx)]
    ELSE ScanFirstWordOnly(bm, frames, size_u64, idx + 1)

\* the loop of allocate_frame_internal from word idx on: the address of the
\* frame it returns (-1 for None) and the bitmap it leaves
RECURSIVE ScanFrom(_, _, _, _)
ScanFrom(bm, frames, size_u64, idx) ==
    IF idx >= size_u64 THEN [ret |-> -1, bitmap |-> bm]
    ELSE IF bm[idx] # ALL_ONES
    THEN LET inverted == Invert(bm[idx])
             bit_idx == trailing_zeros(inverted)
             frame_idx == idx * WORD_BITS + bit_idx
         IN  IF frame_idx >= frames
             THEN [ret |-> -1, bitmap |-> bm]
             ELSE [ret |-> frame_idx * PAGE_SIZE,
                   bitmap |-> mark_used(bm, frame_idx)]
    ELSE ScanFrom(bm, frames, size_u64, idx + 1)

\* allocate_frame_internal whose loop stops after the first word
allocate_frame_first_word(bm, frames, size_u64) ==
    ScanFirstWordOnly(bm, frames, size_u64, 0)

allocate_frame_internal(bm, frames, size_u64) == ScanFrom(bm, frames, size_u64, 0)

\* free_frame_internal taking the address for the frame index
free_frame_internal_undivided(bm, phys_addr) ==
    IF phys_addr \div WORD_BITS \in DOMAIN bm THEN mark_free(bm, phys_addr)
    ELSE bm

free_frame_internal(bm, phys_addr) == mark_free(bm, phys_addr \div PAGE_SIZE)

\* pmm::allocate_frame() called by caller
allocate_frame(caller) ==
    /\ pmm_state = "ready"
    /\ \E r \in {allocate_frame_internal(bitmap, total_frames, bitmap_size_u64)} :
           /\ bitmap' = r.bitmap
           /\ held' = IF r.ret = -1 THEN held
                      ELSE held \cup {<< r.ret \div PAGE_SIZE, caller >>}
           /\ pmm_call' = [op |-> "alloc", arg |-> 0,
                           ret |-> r.ret]
    /\ UNCHANGED << memory_map, max_phys_memory, pmm_state, total_frames,
                    bitmap_size_u64, bitmap_start_addr, post_init, mismatched >>

\* pmm::free_frame(phys_addr)
free_frame(phys_addr) ==
    /\ pmm_state = "ready"
    /\ bitmap' = free_frame_internal(bitmap, phys_addr)
    /\ LET frame == phys_addr \div PAGE_SIZE
       IN  /\ held' = {h \in held : h[1] # frame}
           /\ mismatched' = (mismatched \/ ~\E h \in held : h[1] = frame)
    /\ pmm_call' = [op |-> "free", arg |-> phys_addr, ret |-> -1]
    /\ UNCHANGED << memory_map, max_phys_memory, pmm_state, total_frames,
                    bitmap_size_u64, bitmap_start_addr, post_init >>

\* --- the inputs of the allocator specification ---
MaxEntries == 2
NumCallers == 2
Callers == 1..NumCallers

\* firmware entries: Conventional memory at 0 (frames 0-1), at frame 2
\* (2 frames) and across the first word boundary (frames 63-64), and
\* boot-services data (type 4) at frame 4
Descriptors ==
    { [type_ |-> 7, phys_start |-> 0, page_count |-> 2],
      [type_ |-> 7, phys_start |-> 2 * 4096, page_count |-> 2],
      [type_ |-> 7, phys_start |-> 63 * 4096, page_count |-> 2],
      [type_ |-> 7, phys_start |-> 5 * 4096, page_count |-> 0],
      [type_ |-> 4, phys_start |-> 4 * 4096, page_count |-> 1] }

FramesOf(d) ==
    (d.phys_start \div 4096)..((d.phys_start \div 4096) + d.page_count - 1)

\* firmware maps: up to MaxEntries entries, in any order, no two overlapping
MemoryMaps ==
    { m \in UNION { [1..n -> Descriptors] : n \in 0..MaxEntries } :
        \A i, j \in DOMAIN m : i # j => FramesOf(m[i]) \cap FramesOf(m[j]) = {} }

\* the bootloader's max_phys_addr: the highest end of an entry, rounded up
\* to 2 MiB (uefi_boot/src/main.rs)
RECURSIVE HighestEnd(_, _)
HighestEnd(map, i) ==
    IF i > Len(map) THEN 0
    ELSE LET end == map[i].phys_start + map[i].page_count * 4096
             rest == HighestEnd(map, i + 1)
         IN  IF end > rest THEN end ELSE rest

BootMaxPhysAddr(map) ==
    ((HighestEnd(map, 1) + 2097151) \div 2097152) * 2097152

\* the addresses free_frame is called with: frames 0, 2, 3 and 64
FreeAddrs == { 0, 2 * 4096, 3 * 4096, 64 * 4096 }

\* the static PMM before init
PmmUninit ==
    /\ pmm_state = "uninit"
    /\ bitmap = << >>
    /\ total_frames = 0
    /\ bitmap_size_u64 = 0
    /\ bitmap_start_addr = 0
    /\ post_init = << >>
    /\ held = {}
    /\ mismatched = FALSE
    /\ pmm_call = NoPmmCall

\* the kernel is handed a firmware map and the bootloader's max_phys_addr
PmmBoot ==
    /\ memory_map \in MemoryMaps
    /\ max_phys_memory = BootMaxPhysAddr(memory_map)
    /\ PmmUninit

\* the allocator's variables where another specification leaves them
PmmIdle ==
    /\ memory_map = << >>
    /\ max_phys_memory = 0
    /\ PmmUninit

\* the three public operations, called in any order
PmmInit == pmm_init /\ UNCHANGED << sysVars, flowVars, elfVars >>

AllocateFrame ==
    /\ \E caller \in Callers : allocate_frame(caller)
    /\ UNCHANGED << sysVars, flowVars, elfVars >>

FreeFrame ==
    /\ \E phys_addr \in FreeAddrs : free_frame(phys_addr)
    /\ UNCHANGED << sysVars, flowVars, elfVars >>

(***************************************************************************)
(* The spinlock (kernel/src/spinlock.rs).  Contexts call lock(), use the   *)
(* data through the guard (read it, write it back incremented) and drop    *)
(* the guard; every atomic operation is one step.                          *)
(***************************************************************************)
NumContexts == 3
MaxSections == 2
Contexts == 1..NumContexts

\* an exchange that stores the new value whatever the flag holds
exchange_always(flag, current, new) == [ok |-> TRUE, flag |-> new]

\* AtomicBool::compare_exchange(current, new): whether it succeeded and
\* the flag it leaves
compare_exchange(flag, current, new) ==
    IF flag = current THEN [ok |-> TRUE, flag |-> new]
    ELSE [ok |-> FALSE, flag |-> flag]

SpinIdle ==
    /\ lock_flag = FALSE
    /\ lock_data = 0
    /\ ctx_pc = [c \in Contexts |-> "idle"]
    /\ ctx_seen = [c \in Contexts |-> 0]

SpinFrame == UNCHANGED << sysVars, pmmVars, flowVars, elf_header, stack_state,
                          user_rsp, stack_map, stack_words, stack_written,
                          loadVars >>

\* a context calls lock()
SpinEnter(c) ==
    /\ ctx_pc[c] = "idle"
    /\ lock_data < MaxSections
    /\ ctx_pc' = [ctx_pc EXCEPT ![c] = "spin"]
    /\ UNCHANGED << lock_flag, lock_data, ctx_seen >>
    /\ SpinFrame

\* one turn of the while loop of lock(): the compare_exchange, and the
\* guard when it succeeded
SpinTry(c) ==
    /\ ctx_pc[c] = "spin"
    /\ \E r \in {compare_exchange(lock_flag, FALSE, TRUE)} :
           /\ lock_flag' = r.flag
           /\ ctx_pc' = IF r.ok THEN [ctx_pc EXCEPT ![c] = "guard"] ELSE ctx_pc
    /\ UNCHANGED << lock_data, ctx_seen >>
    /\ SpinFrame

\* Deref: the holder reads the data
GuardRead(c) ==
    /\ ctx_pc[c] = "guard"
    /\ ctx_seen' = [ctx_seen EXCEPT ![c] = lock_data]
    /\ ctx_pc' = [ctx_pc EXCEPT ![c] = "write"]
    /\ UNCHANGED << lock_flag, lock_data >>
    /\ SpinFrame

\* DerefMut: the holder writes the data
GuardWrite(c) ==
    /\ ctx_pc[c] = "write"
    /\ lock_data' = ctx_seen[c] + 1
    /\ ctx_pc' = [ctx_pc EXCEPT ![c] = "drop"]
    /\ UNCHANGED << lock_flag, ctx_seen >>
    /\ SpinFrame

\* Drop for SpinlockGuard: store(false)
GuardDrop(c) ==
    /\ ctx_pc[c] = "drop"
    /\ lock_flag' = FALSE
    /\ ctx_pc' = [ctx_pc EXCEPT ![c] = "idle"]
    /\ UNCHANGED << lock_data, ctx_seen >>
    /\ SpinFrame

(***************************************************************************)
(* The syscall dispatcher (kernel/src/syscalls.rs).                        *)
(***************************************************************************)
SYS_READ == 0
SYS_WRITE == 1
SYS_CLOSE == 3
SYS_FSTAT == 5
SYS_POLL == 7
SYS_MMAP == 9
SYS_MPROTECT == 10
SYS_MUNMAP == 11
SYS_BRK == 12
SYS_RT_SIGACTION == 13
SYS_RT_SIGPROCMASK == 14
SYS_IOCTL == 16
SYS_PREAD64 == 17
SYS_PWRITE64 == 18
SYS_WRITEV == 20
SYS_MADVISE == 28
SYS_FUTEX == 202
SYS_CLOCK_GETTIME == 228
SYS_EXIT == 60
SYS_EXIT_GROUP == 231
SYS_ARCH_PRCTL == 158
SYS_SET_TID_ADDRESS == 218
SYS_SIGALTSTACK == 131
SYS_GETRANDOM == 318

STDOUT == U64(1)
STDERR == U64(2)

\* 0x800_0000, the initial value of CURRENT_BRK
BRK_INITIAL == U64(134217728)
\* 0x1_0000_0000, the upper limit of sys_brk's first branch
BRK_RANGE_END == << 0, 0, 0, 0, 1, 0, 0, 0 >>
\* 0x480000 and 0x500000, MMAP_NEXT's initial value and MMAP_END
MMAP_START == U64(4718592)
MMAP_END == U64(5242880)
\* 0x12345678DEADBEEF and 6364136223846793005 = 0x5851F42D4C957F2D
SEED_INITIAL == << 239, 190, 173, 222, 120, 86, 52, 18 >>
SEED_MULTIPLIER == << 45, 127, 149, 76, 45, 244, 81, 88 >>

\* the mmap pool and the heap load_user_elf maps for the user (0x480000 to
\* 0x500000, 0x8000000 to 0x8100000) and the stack setup_user_stack maps
\* (USER_STACK_SIZE bytes below USER_STACK_BOTTOM = 0x7FFF_FFFF_0000)
HEAP_START == U64(134217728)
HEAP_END == U64(135266304)
USER_STACK_BOTTOM == << 0, 0, 255, 255, 255, 127, 0, 0 >>
USER_STACK_SIZE == 16 * 4096

\* the address of the user buffer the model keeps the bytes of
USER_BUF == MMAP_START

\* the len bytes at addr lie inside lo..hi
InWindow(addr, len, lo, hi) ==
    /\ U64Le(lo, addr)
    /\ ~AddOverflows(addr, len)
    /\ U64Le(wrapping_add(addr, len), hi)

\* the len bytes at addr are mapped for the user
UserMapped(addr, len) ==
    \/ InWindow(addr, len, MMAP_START, MMAP_END)
    \/ InWindow(addr, len, HEAP_START, HEAP_END)
    \/ InWindow(addr, len, wrapping_sub(USER_STACK_BOTTOM, U64(USER_STACK_SIZE)),
                USER_STACK_BOTTOM)

\* no store to user memory
NoStore == [addr |-> U64(0), value |-> U64(0), done |-> FALSE]

\* one logged line: its format string and the values formatted into it
Line(fmt, args) == [fmt |-> fmt, args |-> args]

\* What a handler does: the value it returns, the statics and registers it
\* leaves, what it stores to user memory, draws and logs.
\* outcome "return": back to the dispatcher; "halt": the hlt loop of
\* sys_exit; "panic": a Rust panic (an integer overflow in a build with
\* overflow checks, VirtAddr::new on a non-canonical address); "fault": a
\* page fault on an unmapped user address, whose handler logs and halts.
Return(ret) ==
    [ret |-> ret, brk |-> CURRENT_BRK, next |-> MMAP_NEXT, seed |-> SEED,
     fs |-> FS_BASE, gs |-> GS_BASE, store |-> NoStore,
     screen |-> << >>, serial |-> << >>, log |-> << >>,
     outcome |-> "return"]

NoReturn(how) == [Return(rax) EXCEPT !.outcome = how]

\* the value of a u64 below 2^31 as a number
ToNat(a) == a[1] + 256 * a[2] + 65536 * a[3] + 16777216 * a[4]

\* core::slice::from_raw_parts(buf, count): the count bytes at buf; the
\* pages of the pool hold zeros where the user has stored nothing
Slice(buf, count) ==
    [i \in 1..ToNat(count) |->
        IF buf = USER_BUF /\ i <= Len(user_buf) THEN user_buf[i] ELSE 0]

\* a UTF-8 continuation byte
IsCont(b) == 128 <= b /\ b <= 191

\* the second byte a three- or four-byte sequence led by b admits
SecondOk(b, b1) ==
    CASE b = 224 -> 160 <= b1 /\ b1 <= 191
      [] b = 237 -> 128 <= b1 /\ b1 <= 159
      [] b = 240 -> 144 <= b1 /\ b1 <= 191
      [] b = 244 -> 128 <= b1 /\ b1 <= 143
      [] OTHER -> IsCont(b1)

\* core::str::from_utf8 from byte i on: Ok with the chars decoded, or Err
RECURSIVE Utf8From(_, _, _)
Utf8From(bytes, i, chars) ==
    IF i > Len(bytes) THEN [ok |-> TRUE, chars |-> chars]
    ELSE LET b == bytes[i]
             b1 == IF i + 1 <= Len(bytes) THEN bytes[i + 1] ELSE -1
             b2 == IF i + 2 <= Len(bytes) THEN bytes[i + 2] ELSE -1
             b3 == IF i + 3 <= Len(bytes) THEN bytes[i + 3] ELSE -1
         IN  IF b < 128
             THEN Utf8From(bytes, i + 1, Append(chars, b))
             ELSE IF 194 <= b /\ b <= 223 /\ IsCont(b1)
             THEN Utf8From(bytes, i + 2,
                           Append(chars, (b - 192) * 64 + (b1 - 128)))
             ELSE IF 224 <= b /\ b <= 239 /\ SecondOk(b, b1) /\ IsCont(b2)
             THEN Utf8From(bytes, i + 3,
                           Append(chars, (b - 224) * 4096 + (b1 - 128) * 64
                                         + (b2 - 128)))
             ELSE IF /\ 240 <= b /\ b <= 244 /\ SecondOk(b, b1)
                     /\ IsCont(b2) /\ IsCont(b3)
             THEN Utf8From(bytes, i + 4,
                           Append(chars, (b - 240) * 262144 + (b1 - 128) * 4096
                                         + (b2 - 128) * 64 + (b3 - 128)))
             ELSE [ok |-> FALSE, chars |-> << >>]

from_utf8(bytes) == Utf8From(bytes, 1, << >>)

\* c as u8, what print_char hands to write_byte
AsU8(c) == c % 256

sys_write(fd, buf, count) ==
    IF fd # STDOUT /\ fd # STDERR
    THEN Return(I64Neg(9))
    ELSE IF count # U64(0) /\ ~UserMapped(buf, count)
    THEN NoReturn("fault")
    ELSE LET slice == Slice(buf, count)
             s == from_utf8(slice)
         IN  IF s.ok
             THEN [Return(count) EXCEPT
                      !.screen = [i \in DOMAIN s.chars |-> AsU8(s.chars[i])],
                      !.serial = slice]
             ELSE [Return(count) EXCEPT !.screen = slice]

sys_read(fd, buf, count) == Return(U64(0))

\* sys_exit returning its status to the dispatcher
sys_exit_returning(status) == Return(status)

\* println! of the status, then the hlt loop
sys_exit(status) ==
    [NoReturn("halt") EXCEPT
        !.log = << Line("[KERNEL] User process exited with status: {}",
                        << status >>) >>]

sys_exit_group(status) == sys_exit(status)

\* sys_brk refusing an address outside 128 MB..4 GB that does not shrink the
\* break: it returns the current break and leaves it
sys_brk_refusing(addr) ==
    IF addr = U64(0)
    THEN Return(CURRENT_BRK)
    ELSE IF U64Le(BRK_INITIAL, addr) /\ U64Lt(addr, BRK_RANGE_END)
    THEN [Return(addr) EXCEPT !.brk = addr]
    ELSE IF U64Lt(addr, CURRENT_BRK)
    THEN [Return(addr) EXCEPT !.brk = addr]
    ELSE Return(CURRENT_BRK)

sys_brk(addr) ==
    IF addr = U64(0)
    THEN Return(CURRENT_BRK)
    ELSE IF U64Le(BRK_INITIAL, addr) /\ U64Lt(addr, BRK_RANGE_END)
    THEN [Return(addr) EXCEPT !.brk = addr]
    ELSE IF U64Lt(addr, CURRENT_BRK)
    THEN [Return(addr) EXCEPT !.brk = addr]
    ELSE [Return(addr) EXCEPT !.brk = addr]

sys_mmap(addr, length, prot, flags) ==
    LET aligned_len == AndNotFFF(wrapping_add(length, U64(4095)))
        new_next == wrapping_add(MMAP_NEXT, aligned_len)
    IN  IF overflow_checks /\ AddOverflows(length, U64(4095))
        THEN NoReturn("panic")
        ELSE IF addr # U64(0) /\ U64Le(U64(4096), addr)
        THEN Return(addr)
        ELSE IF overflow_checks /\ AddOverflows(MMAP_NEXT, aligned_len)
        THEN NoReturn("panic")
        ELSE IF U64Lt(MMAP_END, new_next)
        THEN Return(I64Neg(12))
        ELSE [Return(MMAP_NEXT) EXCEPT !.next = new_next]

sys_mprotect(addr, len, prot) == Return(U64(0))

sys_munmap(addr, len) == Return(U64(0))

ARCH_SET_FS == 4098
ARCH_GET_FS == 4099
ARCH_SET_GS == 4097
ARCH_GET_GS == 4100

\* bits 47 to 63 of a virtual address are equal: VirtAddr::new panics on
\* any other address
IsCanonical(a) ==
    \/ a[6] < 128 /\ a[7] = 0 /\ a[8] = 0
    \/ a[6] >= 128 /\ a[7] = 255 /\ a[8] = 255

\* KERNEL_SYSCALL_STACK_TOP: the address of the static KERNEL_SYSCALL_STACK
\* in the kernel image (KERNEL_BASE = 0xFFFF_FFFF_8000_0000), plus 16384 - 8
KERNEL_SYSCALL_STACK_TOP == << 248, 127, 32, 128, 255, 255, 255, 255 >>

\* the words syscall_entry pushes before it calls the handler
SAVED_WORDS == 15

\* the address of the k-th word pushed on the kernel syscall stack
SavedSlot(k) == wrapping_sub(KERNEL_SYSCALL_STACK_TOP, U64(8 * k))

\* the address is a word of the save area of syscall_entry: kernel memory,
\* mapped and writable in ring 0
InSaveArea(addr) == \E k \in 1..SAVED_WORDS : addr = SavedSlot(k)

\* *(addr as *mut u64) = value
StoreU64(addr, value) ==
    IF UserMapped(addr, U64(8)) \/ InSaveArea(addr)
    THEN [Return(U64(0)) EXCEPT
             !.store = [addr |-> addr, value |-> value, done |-> TRUE]]
    ELSE NoReturn("fault")

\* sys_arch_prctl whose ARCH_SET_GS arm writes the FS base
sys_arch_prctl_one_base(code, addr) ==
    CASE code = U64(ARCH_SET_FS) ->
            IF IsCanonical(addr) THEN [Return(U64(0)) EXCEPT !.fs = addr]
            ELSE NoReturn("panic")
      [] code = U64(ARCH_GET_FS) -> StoreU64(addr, FS_BASE)
      [] code = U64(ARCH_SET_GS) ->
            IF IsCanonical(addr) THEN [Return(U64(0)) EXCEPT !.fs = addr]
            ELSE NoReturn("panic")
      [] code = U64(ARCH_GET_GS) -> StoreU64(addr, GS_BASE)
      [] OTHER -> Return(I64Neg(22))

sys_arch_prctl(code, addr) ==
    CASE code = U64(ARCH_SET_FS) ->
            IF IsCanonical(addr) THEN [Return(U64(0)) EXCEPT !.fs = addr]
            ELSE NoReturn("panic")
      [] code = U64(ARCH_GET_FS) -> StoreU64(addr, FS_BASE)
      [] code = U64(ARCH_SET_GS) ->
            IF IsCanonical(addr) THEN [Return(U64(0)) EXCEPT !.gs = addr]
            ELSE NoReturn("panic")
      [] code = U64(ARCH_GET_GS) -> StoreU64(addr, GS_BASE)
      [] OTHER -> Return(I64Neg(22))

sys_set_tid_address(tidptr) == Return(U64(1))

sys_poll(fds, nfds, timeout) == Return(U64(0))

sys_rt_sigaction(signum, act, oldact) == Return(U64(0))

sys_rt_sigprocmask(how, set, oldset, sigsetsize) == Return(U64(0))

sys_sigaltstack(ss, old_ss) == Return(U64(0))

\* one step of the generator: SEED.wrapping_mul(6364136223846793005).wrapping_add(1)
SeedStep(seed) == wrapping_add(wrapping_mul(seed, SEED_MULTIPLIER), U64(1))

RECURSIVE SeedAfter(_, _)
SeedAfter(seed, n) == IF n = 0 THEN seed ELSE SeedAfter(SeedStep(seed), n - 1)

sys_getrandom(buf, buflen, flags) ==
    [Return(buflen) EXCEPT !.seed = SeedAfter(SEED, ToNat(buflen))]

sys_fstat(fd, statbuf) ==
    IF U64Le(fd, STDERR) THEN Return(U64(0)) ELSE Return(I64Neg(9))

sys_ioctl(fd, request, arg) == Return(I64Neg(25))

\* iovecs: the iovec array user memory holds at iov, iovcnt entries
RECURSIVE WritevFrom(_, _, _, _, _, _)
WritevFrom(fd, iovecs, i, total, screen, serial) ==
    IF i > Len(iovecs)
    THEN [Return(total) EXCEPT !.screen = screen, !.serial = serial]
    ELSE LET result == sys_write(fd, iovecs[i].base, iovecs[i].len)
             drawn == screen \o result.screen
             sent == serial \o result.serial
         IN  IF result.outcome # "return" \/ IsNegativeI64(result.ret)
             THEN [result EXCEPT !.screen = drawn, !.serial = sent]
             ELSE WritevFrom(fd, iovecs, i + 1,
                             wrapping_add(total, result.ret), drawn, sent)

sys_writev(fd, iov, iovcnt, iovecs) ==
    WritevFrom(fd, iovecs, 1, U64(0), << >>, << >>)

\* sys_unhandled with the wrong errno (-1, EPERM)
sys_unhandled_eperm(nr) ==
    [Return(I64Neg(1)) EXCEPT
        !.log = << Line("[SYSCALL] Unhandled syscall: {}", << U64(nr) >>) >>]

\* the default arm of the dispatcher's match
sys_unhandled(nr) ==
    [Return(I64Neg(38)) EXCEPT
        !.log = << Line("[SYSCALL] Unhandled syscall: {}", << U64(nr) >>) >>]

\* the match of handle_syscall
Dispatch(nr, arg1, arg2, arg3, arg4, iovecs) ==
    CASE nr = SYS_WRITE -> sys_write(arg1, arg2, arg3)
      [] nr = SYS_READ -> sys_read(arg1, arg2, arg3)
      [] nr = SYS_EXIT -> sys_exit(arg1)
      [] nr = SYS_EXIT_GROUP -> sys_exit_group(arg1)
      [] nr = SYS_BRK -> sys_brk(arg1)
      [] nr = SYS_MMAP -> sys_mmap(arg1, arg2, arg3, arg4)
      [] nr = SYS_MPROTECT -> sys_mprotect(arg1, arg2, arg3)
      [] nr = SYS_MUNMAP -> sys_munmap(arg1, arg2)
      [] nr = SYS_ARCH_PRCTL -> sys_arch_prctl(arg1, arg2)
      [] nr = SYS_SET_TID_ADDRESS -> sys_set_tid_address(arg1)
      [] nr = SYS_POLL -> sys_poll(arg1, arg2, arg3)
      [] nr = SYS_RT_SIGACTION -> sys_rt_sigaction(arg1, arg2, arg3)
      [] nr = SYS_RT_SIGPROCMASK -> sys_rt_sigprocmask(arg1, arg2, arg3, arg4)
      [] nr = SYS_SIGALTSTACK -> sys_sigaltstack(arg1, arg2)
      [] nr = SYS_GETRANDOM -> sys_getrandom(arg1, arg2, arg3)
      [] nr = SYS_FSTAT -> sys_fstat(arg1, arg2)
      [] nr = SYS_IOCTL -> sys_ioctl(arg1, arg2, arg3)
      [] nr = SYS_WRITEV -> sys_writev(arg1, arg2, arg3, iovecs)
      [] nr = SYS_MADVISE -> Return(U64(0))
      [] OTHER -> sys_unhandled(nr)

\* --- syscall_entry: the save area, the marshalling, the restore ---
\* the registers the user holds at the syscall instruction besides RAX and
\* the arguments: RSP, RCX (user RIP), R11 (user RFLAGS) and the others
UserContext ==
    [rsp |-> << 240, 254, 255, 255, 255, 127, 0, 0 >>, rcx |-> U64(4198400),
     r11 |-> U64(514), r8 |-> U64(108), r9 |-> U64(109), rbx |-> U64(101),
     rbp |-> U64(102), r12 |-> U64(112), r13 |-> U64(113), r14 |-> U64(114),
     r15 |-> U64(115)]

\* the registers at the syscall instruction of a call
UserRegs(nr, arg1, arg2, arg3, arg4) ==
    [rax |-> U64(nr), rdi |-> arg1, rsi |-> arg2, rdx |-> arg3, r10 |-> arg4,
     rsp |-> UserContext.rsp, rcx |-> UserContext.rcx, r11 |-> UserContext.r11,
     r8 |-> UserContext.r8, r9 |-> UserContext.r9, rbx |-> UserContext.rbx,
     rbp |-> UserContext.rbp, r12 |-> UserContext.r12, r13 |-> UserContext.r13,
     r14 |-> UserContext.r14, r15 |-> UserContext.r15]

\* the pushes of syscall_entry, in order; the first pushes TEMP_RSP, which
\* holds the user RSP
PushOrder ==
    << "rsp", "rcx", "r11", "rdi", "rsi", "rdx", "r10", "r8", "r9", "rbx",
       "rbp", "r12", "r13", "r14", "r15" >>

\* the pops of syscall_entry, in order
PopOrder ==
    << "r15", "r14", "r13", "r12", "rbp", "rbx", "r9", "r8", "r10", "rdx",
       "rsi", "rdi", "r11", "rcx", "rsp" >>

\* the kernel syscall stack after the pushes: word k lies at SavedSlot(k)
RECURSIVE PushFrom(_, _, _)
PushFrom(regs, kstack, i) ==
    IF i > Len(PushOrder) THEN kstack
    ELSE PushFrom(regs, Append(kstack, regs[PushOrder[i]]), i + 1)

\* [rsp + offset]
Peek(kstack, offset) == kstack[Len(kstack) - offset \div 8]

\* the registers at `call handler`: nr, arg1..arg5 moved to RDI, RSI, RDX,
\* RCX, R8, R9
Marshal(regs, kstack) ==
    [regs EXCEPT !.rdi = regs.rax,
                 !.rsi = Peek(kstack, 88),
                 !.rdx = Peek(kstack, 80),
                 !.rcx = Peek(kstack, 72),
                 !.r8 = Peek(kstack, 64),
                 !.r9 = Peek(kstack, 56)]

\* the save area after a store of the handler
KernelStore(kstack, store) ==
    [k \in DOMAIN kstack |->
        IF store.done /\ store.addr = SavedSlot(k) THEN store.value
        ELSE kstack[k]]

\* the pops from pop number i on: each takes the word on top of the stack
RECURSIVE PopFrom(_, _, _)
PopFrom(regs, kstack, i) ==
    IF i > Len(PopOrder) \/ kstack = << >>
    THEN [regs |-> regs, left |-> Len(kstack)]
    ELSE PopFrom([regs EXCEPT ![PopOrder[i]] = kstack[Len(kstack)]],
                 SubSeq(kstack, 1, Len(kstack) - 1), i + 1)

\* no syscall yet
NoRegs == [regs |-> UserRegs(0, U64(0), U64(0), U64(0), U64(0)), left |-> 0]

\* One syscall from ring 3: the dispatcher logs the call, runs the handler,
\* logs the result, and the value goes back to the user in RAX; exit never
\* returns.
handle_syscall(nr, arg1, arg2, arg3, arg4, iovecs) ==
    /\ sc_state = "user"
    /\ \E regs \in {UserRegs(nr, arg1, arg2, arg3, arg4)} :
       \E kstack \in {PushFrom(regs, << >>, 1)} :
       \E c \in {Marshal(regs, kstack)} :
       \E e \in {Dispatch(nr, c.rsi, c.rdx, c.rcx, c.r8, iovecs)} :
           /\ entry_regs' = [regs |-> regs, left |-> 0]
           /\ exit_regs' = IF e.outcome = "return"
                           THEN PopFrom([c EXCEPT !.rax = e.ret],
                                        KernelStore(kstack, e.store), 1)
                           ELSE [regs |-> c, left |-> Len(kstack)]
           /\ CURRENT_BRK' = e.brk
           /\ MMAP_NEXT' = e.next
           /\ SEED' = e.seed
           /\ FS_BASE' = e.fs
           /\ GS_BASE' = e.gs
           /\ stored' = e.store
           /\ screen_out' = e.screen
           /\ serial_out' = e.serial
           /\ kernel_log' =
                  << Line("[SC] nr={} a1={:#x} a2={:#x} a3={:#x}",
                          << U64(nr), arg1, arg2, arg3 >>) >>
                  \o e.log
                  \o (IF e.outcome = "return"
                      THEN << Line("[SC] -> {}", << e.ret >>) >>
                      ELSE << >>)
           /\ rax' = e.ret
           /\ sc_state' = CASE e.outcome = "return" -> "user"
                            [] e.outcome = "halt" -> "halted"
                            [] e.outcome = "fault" -> "faulted"
                            [] OTHER -> "panicked"
           /\ sc_call' = [nr |-> nr, arg1 |-> arg1, arg2 |-> arg2,
                          arg3 |-> arg3, returned |-> e.outcome = "return"]
           /\ random_bytes' = IF nr = SYS_GETRANDOM
                              THEN random_bytes + ToNat(arg2)
                              ELSE random_bytes
           /\ pool_allocs' = IF e.next # MMAP_NEXT THEN pool_allocs + 1
                             ELSE pool_allocs
    /\ UNCHANGED << overflow_checks, user_buf, pmmVars, flowVars, elfVars >>

\* no syscall has been dispatched yet
NoCall ==
    [nr |-> -1, arg1 |-> U64(0), arg2 |-> U64(0), arg3 |-> U64(0),
     returned |-> FALSE]

\* the user program stores bytes into its buffer
user_store(bytes) ==
    /\ sc_state = "user"
    /\ user_buf' = bytes
    /\ UNCHANGED << CURRENT_BRK, MMAP_NEXT, SEED, rax, sc_state, sc_call,
                    random_bytes, pool_allocs, overflow_checks, FS_BASE,
                    GS_BASE, stored, screen_out, serial_out, kernel_log,
                    entry_regs, exit_regs, pmmVars, flowVars, elfVars >>

SysInit ==
    /\ CURRENT_BRK = BRK_INITIAL
    /\ MMAP_NEXT = MMAP_START
    /\ SEED = SEED_INITIAL
    /\ rax = U64(0)
    /\ sc_state = "user"
    /\ sc_call = NoCall
    /\ random_bytes = 0
    /\ pool_allocs = 0
    /\ overflow_checks \in BOOLEAN
    /\ FS_BASE = U64(0)
    /\ GS_BASE = U64(0)
    /\ user_buf = << >>
    /\ stored = NoStore
    /\ screen_out = << >>
    /\ serial_out = << >>
    /\ kernel_log = << >>
    /\ entry_regs = NoRegs
    /\ exit_regs = NoRegs

(***************************************************************************)
(* The CPU, the locks and the control flow of the kernel (kernel/src/      *)
(* main.rs, interrupts.rs, writer.rs, screen.rs, heap_allocator.rs,        *)
(* pmm.rs, shared/src/serial.rs, shared/src/panic.rs).  A routine is the   *)
(* sequence of the steps of one function that touch RFLAGS.IF, a lock or   *)
(* shared data; a frame of the call stack is in routine fn at step pc.     *)
(***************************************************************************)
BUFFER_SIZE == 64
TICK_PERIOD == 20
KERNEL_HEAP_SIZE == 102400
TABLE_LEVELS == 3

LockNames == {"PMM", "HEAP", "SERIAL", "WRITER", "KEYBOARD_BUFFER", "PICS"}

\* the steps of a routine
Op(op) == [op |-> op, name |-> "", to |-> 0]
Call(fn) == [op |-> "call", name |-> fn, to |-> 0]
CallWith(fn, arg) == [op |-> "call", name |-> fn, to |-> arg]
Lock(l) == [op |-> "lock", name |-> l, to |-> 0]
Unlock(l) == [op |-> "unlock", name |-> l, to |-> 0]
ForceLock(l) == [op |-> "force_lock", name |-> l, to |-> 0]
Branch(op, to) == [op |-> op, name |-> "", to |-> to]
\* an initialisation that touches neither RFLAGS.IF nor a lock
Step(name) == [op |-> "init", name |-> name, to |-> 0]

\* _start: the boot sequence (steps 1-21) and the main loop (steps 22-35)
start_steps ==
    << Call("screen_op"),            \*  1 screen::init             main.rs:28
       Call("screen_op"),            \*  2 screen::clear_screen     main.rs:31
       Call("screen_op"),            \*  3 screen::set_scale        main.rs:34
       Call("screen_op"),            \*  4 screen::set_text_color   main.rs:35
       Call("print"),                \*  5 println!                 main.rs:36
       Call("screen_op"),            \*  6 screen::reset_style      main.rs:38
       Step("gdt_init"),             \*  7 gdt::init                main.rs:41
       Call("print"),                \*  8                          main.rs:42
       Step("init_idt"),             \*  9 interrupts::init_idt     main.rs:45
       Call("print"),                \* 10                          main.rs:46
       Call("PICS_initialize"),      \* 11                          main.rs:49
       Call("print"),                \* 12                          main.rs:50
       Call("pmm_init"),             \* 13 pmm::init                main.rs:53
       Step("init_mapper"),          \* 14 pml4::init_mapper        main.rs:64
       Step("init_timer"),           \* 15 interrupts::init_timer   main.rs:67
       Call("print"),                \* 16                          main.rs:68
       Call("init_heap"),            \* 17                          main.rs:72
       Call("print"),                \* 18                          main.rs:74
       Op("sti"),                    \* 19 interrupts::enable       main.rs:77
       Call("print"),                \* 20                          main.rs:78
       Call("print"),                \* 21                          main.rs:80
       Op("cli"),                    \* 22 loop: disable            main.rs:94
       Call("pop_scancode"),         \* 23                          main.rs:97
       Op("ticks_read"),             \* 24                          main.rs:100
       Op("sti"),                    \* 25 enable                   main.rs:103
       Branch("if_dot", 29),         \* 26 if ... % 20 == 0         main.rs:106
       Call("print"),                \* 27 print!(".")              main.rs:107
       Op("set_last_tick"),          \* 28                          main.rs:108
       Branch("match_scancode", 34), \* 29 None: step 34            main.rs:112
       Op("sti"),                    \* 30 Some: enable             main.rs:115
       Branch("decode", 33),         \* 31 no key decoded: step 33  main.rs:118
       Call("print"),                \* 32 print!(key)              main.rs:123
       Branch("jump", 22),           \* 33 next iteration
       Op("sti_hlt"),                \* 34 enable_and_hlt           main.rs:130
       Branch("jump", 22) >>         \* 35 next iteration

\* screen::init, set_text_color, set_scale, clear_screen, reset_style
screen_op_steps ==
    << Lock("WRITER"), Unlock("WRITER"), Op("ret") >>

\* writer::_print, what print! and println! expand to
print_steps ==
    << Op("wi_enter"),               \* without_interrupts        writer.rs:21
       Call("serial_print"),         \*                           writer.rs:23
       Lock("WRITER"),               \*                           writer.rs:26
       Unlock("WRITER"),
       Op("wi_exit"),
       Op("ret") >>

\* shared::serial::_print, what serial_print! and serial_println! expand to
serial_print_steps ==
    << Op("wi_enter"), Lock("SERIAL"), Unlock("SERIAL"), Op("wi_exit"),
       Op("ret") >>

\* LockedPics::initialize
PICS_initialize_steps ==
    << Op("wi_enter"), Lock("PICS"), Unlock("PICS"), Op("wi_exit"),
       Op("ret") >>

\* LockedPics::notify_end_of_interrupt
notify_end_of_interrupt_steps ==
    << Lock("PICS"), Unlock("PICS"), Op("ret") >>

\* pmm::init: BitmapPmm::init under the PMM lock
pmm_init_steps ==
    << Lock("PMM"),                  \*  1                        pmm.rs:203
       Call("serial_print"),         \*  2                        pmm.rs:40
       Call("serial_print"),         \*  3                        pmm.rs:49
       Call("serial_print"),         \*  4                        pmm.rs:59
       Branch("init_bitmap", 13),    \*  5 no region: step 13     pmm.rs:61-118
       Call("serial_print"),         \*  6                        pmm.rs:74
       Call("serial_print"),         \*  7                        pmm.rs:88
       Call("serial_print"),         \*  8                        pmm.rs:97
       Call("serial_print"),         \*  9                        pmm.rs:101
       Call("serial_print"),         \* 10                        pmm.rs:122
       Unlock("PMM"),                \* 11
       Op("ret"),                    \* 12
       Call("panic") >>              \* 13 panic!                 pmm.rs:85

\* pmm::allocate_frame for the caller the frame's arg names
allocate_frame_steps ==
    << Lock("PMM"), Op("allocate"), Unlock("PMM"), Op("ret") >>

\* heap_allocator::init_heap; its Err makes _start's expect panic
init_heap_steps ==
    << Call("print"),                  \*  1           heap_allocator.rs:84
       Branch("for_page", 9),          \*  2 done: 9   heap_allocator.rs:90
       CallWith("allocate_frame", 1),  \*  3           heap_allocator.rs:92
       Branch("ok_or", 12),            \*  4 None: 12  heap_allocator.rs:94
       Branch("map_to", 2),            \*  5 mapped: 2 heap_allocator.rs:100
       CallWith("allocate_frame", 2),  \*  6 map_to needs a page table
       Branch("ok_or", 12),            \*  7 None: 12
       Branch("table_linked", 5),      \*  8 back to map_to
       Call("heap_init"),              \*  9           heap_allocator.rs:106
       Call("print"),                  \* 10           heap_allocator.rs:109
       Op("ret"),                      \* 11
       Call("panic") >>                \* 12 expect    main.rs:73

\* SafeLockedHeap::init
heap_init_steps ==
    << Op("wi_enter"), Lock("HEAP"), Unlock("HEAP"), Op("wi_exit"),
       Op("ret") >>

\* interrupts::pop_scancode
pop_scancode_steps ==
    << Op("wi_enter"), Lock("KEYBOARD_BUFFER"), Op("pop"),
       Unlock("KEYBOARD_BUFFER"), Op("wi_exit"), Op("ret") >>

\* interrupts::add_scancode
add_scancode_steps ==
    << Lock("KEYBOARD_BUFFER"), Op("push"), Unlock("KEYBOARD_BUFFER"),
       Op("ret") >>

\* interrupts::timer_handler
timer_handler_steps ==
    << Op("ticks_inc"), Call("notify_end_of_interrupt"), Op("iretq") >>

\* interrupts::keyboard_handler
keyboard_handler_steps ==
    << Op("port_read"), Call("add_scancode"),
       Call("notify_end_of_interrupt"), Op("iretq") >>

\* shared::serial::print_panic
print_panic_steps ==
    << Op("wi_enter"), ForceLock("SERIAL"), Unlock("SERIAL"), Op("wi_exit"),
       Op("ret") >>

\* the panic handler: panic_handler_impl, which never returns
panic_steps ==
    << Call("print_panic"), Op("hlt_loop") >>

\* the user program in ring 3: one syscall instruction after another
user_steps ==
    << Op("syscall"), Branch("jump", 1) >>

\* syscall_entry and handle_syscall: the arms of the match that print, the
\* arm that never returns and the arms that do neither
syscall_entry_steps ==
    << Call("serial_print"),         \*  1 "[SC] nr=..."          syscalls.rs:257
       Op("dispatch"),               \*  2 match nr               syscalls.rs:264
       Lock("WRITER"),               \*  3 sys_write: print_char  syscalls.rs:307
       Unlock("WRITER"),             \*  4
       Call("serial_print"),         \*  5                        syscalls.rs:310
       Branch("jump", 11),           \*  6
       Call("print"),                \*  7 unhandled: println!    syscalls.rs:283
       Branch("jump", 11),           \*  8
       Call("print"),                \*  9 sys_exit: println!     syscalls.rs:329
       Op("hlt_loop"),               \* 10 loop { hlt }           syscalls.rs:332
       Call("serial_print"),         \* 11 "[SC] -> ..."          syscalls.rs:288
       Op("sysretq") >>              \* 12                        syscalls.rs:205

\* where the match of handle_syscall continues: sys_write, the default arm,
\* sys_exit, and the arms that print nothing
DispatchArms == {3, 7, 9, 11}

Code(fn) ==
    CASE fn = "_start" -> start_steps
      [] fn = "screen_op" -> screen_op_steps
      [] fn = "print" -> print_steps
      [] fn = "serial_print" -> serial_print_steps
      [] fn = "PICS_initialize" -> PICS_initialize_steps
      [] fn = "notify_end_of_interrupt" -> notify_end_of_interrupt_steps
      [] fn = "pmm_init" -> pmm_init_steps
      [] fn = "allocate_frame" -> allocate_frame_steps
      [] fn = "init_heap" -> init_heap_steps
      [] fn = "heap_init" -> heap_init_steps
      [] fn = "pop_scancode" -> pop_scancode_steps
      [] fn = "add_scancode" -> add_scancode_steps
      [] fn = "timer_handler" -> timer_handler_steps
      [] fn = "keyboard_handler" -> keyboard_handler_steps
      [] fn = "print_panic" -> print_panic_steps
      [] fn = "user" -> user_steps
      [] fn = "syscall_entry" -> syscall_entry_steps
      [] fn = "panic" -> panic_steps

\* the frame that runs and the step it is at
Top == stack[Len(stack)]
Cur == Code(Top.fn)[Top.pc]
Running == stack # << >> /\ ~halted
At(op) == Running /\ Cur.op = op
Frame(fn, arg, flag) == [fn |-> fn, pc |-> 1, saved |-> flag, arg |-> arg]
GoTo(k) == [stack EXCEPT ![Len(stack)].pc = k]
Advance == GoTo(Top.pc + 1)

ringVars == << buffer, head, tail, accepted, popped >>
irqVars == << TICKS, port60, irq_scancode, keys_left, ticks_left >>
localVars == << scancode, current_ticks, last_tick, heap_page, tables >>
dataVars == << ringVars, irqVars, localVars >>
otherVars == << sysVars, pmmVars, elfVars >>

\* --- calls and returns ---
ExecCall ==
    /\ At("call")
    /\ stack' = Append(Advance, Frame(Cur.name, Cur.to, FALSE))
    /\ UNCHANGED << interrupts_enabled, locks, halted, dataVars, otherVars >>

ExecRet ==
    /\ At("ret")
    /\ stack' = SubSeq(stack, 1, Len(stack) - 1)
    /\ UNCHANGED << interrupts_enabled, locks, halted, dataVars, otherVars >>

ExecJump ==
    /\ At("jump")
    /\ stack' = GoTo(Cur.to)
    /\ UNCHANGED << interrupts_enabled, locks, halted, dataVars, otherVars >>

\* --- locks: spin::Mutex::lock and Spinlock::lock spin while the lock is
\* held, the guard's drop releases it ---
ExecLock ==
    /\ At("lock")
    /\ Cur.name \notin locks
    /\ locks' = locks \cup {Cur.name}
    /\ stack' = Advance
    /\ UNCHANGED << interrupts_enabled, halted, dataVars, otherVars >>

ExecUnlock ==
    /\ At("unlock")
    /\ locks' = locks \ {Cur.name}
    /\ stack' = Advance
    /\ UNCHANGED << interrupts_enabled, halted, dataVars, otherVars >>

\* SERIAL1.lock() in the place of print_panic's match: it proceeds only
\* when the lock is free
spin_lock(taken, l) ==
    [proceeds |-> l \notin taken, locks |-> taken \cup {l}]

\* the match of print_panic: try_lock takes a free lock; when the lock is
\* taken, force_unlock releases it and lock takes it
force_lock(taken, l) ==
    IF l \notin taken
    THEN [proceeds |-> TRUE, locks |-> taken \cup {l}]
    ELSE [proceeds |-> TRUE, locks |-> (taken \ {l}) \cup {l}]

ExecForceLock ==
    /\ At("force_lock")
    /\ \E r \in {force_lock(locks, Cur.name)} :
           /\ r.proceeds
           /\ locks' = r.locks
    /\ stack' = Advance
    /\ UNCHANGED << interrupts_enabled, halted, dataVars, otherVars >>

\* a Rust panic at the step the kernel is at (an expect, a failed check):
\* the panic handler is called and never returns
Panicking == \E i \in DOMAIN stack : stack[i].fn = "panic"
Panic ==
    /\ Running
    /\ ~Panicking
    /\ stack' = Append(stack, Frame("panic", 0, FALSE))
    /\ UNCHANGED << interrupts_enabled, locks, halted, dataVars, otherVars >>

\* gdt::init, init_idt, init_mapper, init_timer: descriptor tables, CR3 and
\* I/O ports only
ExecInit ==
    /\ At("init")
    /\ stack' = Advance
    /\ UNCHANGED << interrupts_enabled, locks, halted, dataVars, otherVars >>

\* --- RFLAGS.IF ---
ExecCli ==
    /\ At("cli")
    /\ interrupts_enabled' = FALSE
    /\ stack' = Advance
    /\ UNCHANGED << locks, halted, dataVars, otherVars >>

ExecSti ==
    /\ At("sti")
    /\ interrupts_enabled' = TRUE
    /\ stack' = Advance
    /\ UNCHANGED << locks, halted, dataVars, otherVars >>

\* without_interrupts keeping the interrupts as they are
without_interrupts_open(flag) == flag

\* the flag inside x86_64::instructions::interrupts::without_interrupts: it
\* saves whether interrupts were enabled and disables them if they were
without_interrupts(flag) == FALSE

ExecWiEnter ==
    /\ At("wi_enter")
    /\ interrupts_enabled' = without_interrupts(interrupts_enabled)
    /\ stack' = [Advance EXCEPT ![Len(stack)].saved = interrupts_enabled]
    /\ UNCHANGED << locks, halted, dataVars, otherVars >>

\* the end of without_interrupts: enables them again if they were enabled
ExecWiExit ==
    /\ At("wi_exit")
    /\ interrupts_enabled' = (interrupts_enabled \/ Top.saved)
    /\ stack' = Advance
    /\ UNCHANGED << locks, halted, dataVars, otherVars >>

\* enable_and_hlt: sti; hlt with no interrupt in between
ExecStiHlt ==
    /\ At("sti_hlt")
    /\ interrupts_enabled' = TRUE
    /\ halted' = TRUE
    /\ stack' = Advance
    /\ UNCHANGED << locks, dataVars, otherVars >>

\* loop { hlt } of the panic handler
ExecHltLoop ==
    /\ At("hlt_loop")
    /\ halted' = TRUE
    /\ UNCHANGED << interrupts_enabled, locks, stack, dataVars, otherVars >>

\* --- interrupts: both handlers sit behind interrupt gates, which push
\* RFLAGS and clear IF; an interrupt ends a hlt ---
\* a trap gate, which leaves IF as it is
trap_gate(flag) == flag

\* RFLAGS.IF after delivery through an interrupt gate, the gate
\* set_handler_fn installs
interrupt_gate(flag) == FALSE

\* a hlt that an interrupt does not end
hlt_kept(flag) == flag

\* whether the CPU is still halted once an interrupt is delivered: hlt ends
\* at the next interrupt
hlt_after_interrupt(flag) == FALSE

Deliver(handler) ==
    /\ stack # << >>
    /\ interrupts_enabled
    /\ stack' = Append(stack, Frame(handler, 0, interrupts_enabled))
    /\ interrupts_enabled' = interrupt_gate(interrupts_enabled)
    /\ halted' = hlt_after_interrupt(halted)

TimerIrq ==
    /\ ticks_left > 0
    /\ Deliver("timer_handler")
    /\ ticks_left' = ticks_left - 1
    /\ UNCHANGED << locks, ringVars, TICKS, port60, irq_scancode, keys_left,
                    localVars, otherVars >>

\* a key event: the controller holds the next byte and raises IRQ 1
KeyboardIrq ==
    /\ keys_left > 0
    /\ Deliver("keyboard_handler")
    /\ keys_left' = keys_left - 1
    /\ port60' = (port60 + 1) % 256
    /\ UNCHANGED << locks, ringVars, TICKS, irq_scancode, ticks_left,
                    localVars, otherVars >>

\* iretq pops the RFLAGS the gate pushed
ExecIretq ==
    /\ At("iretq")
    /\ interrupts_enabled' = Top.saved
    /\ stack' = SubSeq(stack, 1, Len(stack) - 1)
    /\ UNCHANGED << locks, halted, dataVars, otherVars >>

\* --- the syscall instruction and sysretq ---
\* an SFMASK without the IF bit: RFLAGS.IF stays as the user had it
sfmask_without_if(flag) == flag

\* RFLAGS.IF after the syscall instruction: RFLAGS &= ~SFMASK, and init
\* wrote INTERRUPT_FLAG | TRAP_FLAG to SFMASK
sfmask(flag) == FALSE

\* syscall: R11 takes the user's RFLAGS, RFLAGS is masked, and control
\* passes to syscall_entry (LSTAR), which pushes R11 on the kernel stack
ExecSyscall ==
    /\ At("syscall")
    /\ stack' = Append(Advance, Frame("syscall_entry", 0, interrupts_enabled))
    /\ interrupts_enabled' = sfmask(interrupts_enabled)
    /\ UNCHANGED << locks, halted, dataVars, otherVars >>

\* the match of handle_syscall takes one of its arms
ExecDispatch ==
    /\ At("dispatch")
    /\ \E arm \in DispatchArms : stack' = GoTo(arm)
    /\ UNCHANGED << interrupts_enabled, locks, halted, dataVars, otherVars >>

\* sysretq loads RFLAGS from R11, which syscall_entry popped
ExecSysretq ==
    /\ At("sysretq")
    /\ interrupts_enabled' = Top.saved
    /\ stack' = SubSeq(stack, 1, Len(stack) - 1)
    /\ UNCHANGED << locks, halted, dataVars, otherVars >>

\* --- interrupts.rs: the handlers and the scancode ring ---
ExecTicksInc ==
    /\ At("ticks_inc")
    /\ TICKS' = TICKS + 1
    /\ stack' = Advance
    /\ UNCHANGED << interrupts_enabled, locks, halted, ringVars, port60, irq_scancode,
                    keys_left, ticks_left, localVars, otherVars >>

ExecPortRead ==
    /\ At("port_read")
    /\ irq_scancode' = port60
    /\ stack' = Advance
    /\ UNCHANGED << interrupts_enabled, locks, halted, ringVars, TICKS, port60, keys_left,
                    ticks_left, localVars, otherVars >>

\* add_scancode without the test for a full ring: the byte is stored and
\* head moves onto tail
add_scancode_unchecked(ring, byte) ==
    [buffer |-> [ring.buffer EXCEPT ![ring.head] = byte],
     head |-> (ring.head + 1) % BUFFER_SIZE, tail |-> ring.tail,
     stored |-> TRUE]

\* add_scancode storing the byte without moving head
add_scancode_head_kept(ring, byte) ==
    LET next_head == (ring.head + 1) % BUFFER_SIZE
    IN  IF next_head # ring.tail
        THEN [buffer |-> [ring.buffer EXCEPT ![ring.head] = byte],
              head |-> ring.head, tail |-> ring.tail, stored |-> TRUE]
        ELSE [buffer |-> ring.buffer, head |-> ring.head, tail |-> ring.tail,
              stored |-> FALSE]

\* the body of add_scancode on the ring [buffer, head, tail]: the ring it
\* leaves and whether it stored the byte
add_scancode(ring, byte) ==
    LET next_head == (ring.head + 1) % BUFFER_SIZE
    IN  IF next_head # ring.tail
        THEN [buffer |-> [ring.buffer EXCEPT ![ring.head] = byte],
              head |-> next_head, tail |-> ring.tail, stored |-> TRUE]
        ELSE [buffer |-> ring.buffer, head |-> ring.head, tail |-> ring.tail,
              stored |-> FALSE]

\* the body of pop_scancode: the byte it returns (-1 for None) and the tail
\* it leaves
pop_scancode(ring) ==
    IF ring.head = ring.tail
    THEN [ret |-> -1, tail |-> ring.tail]
    ELSE [ret |-> ring.buffer[ring.tail],
          tail |-> (ring.tail + 1) % BUFFER_SIZE]

Ring == [buffer |-> buffer, head |-> head, tail |-> tail]

ExecPush ==
    /\ At("push")
    /\ LET r == add_scancode(Ring, irq_scancode)
       IN  /\ buffer' = r.buffer
           /\ head' = r.head
           /\ accepted' = IF r.stored THEN Append(accepted, irq_scancode)
                          ELSE accepted
    /\ stack' = Advance
    /\ UNCHANGED << interrupts_enabled, locks, halted, tail, popped, irqVars, localVars,
                    otherVars >>

ExecPop ==
    /\ At("pop")
    /\ LET r == pop_scancode(Ring)
       IN  /\ scancode' = r.ret
           /\ tail' = r.tail
           /\ popped' = IF r.ret = -1 THEN popped ELSE Append(popped, r.ret)
    /\ stack' = Advance
    /\ UNCHANGED << interrupts_enabled, locks, halted, buffer, head, accepted, irqVars,
                    current_ticks, last_tick, heap_page, tables, otherVars >>

\* --- the main loop of _start ---
ExecTicksRead ==
    /\ At("ticks_read")
    /\ current_ticks' = TICKS
    /\ stack' = Advance
    /\ UNCHANGED << interrupts_enabled, locks, halted, ringVars, irqVars, scancode, last_tick,
                    heap_page, tables, otherVars >>

\* if current_ticks > last_tick && current_ticks % 20 == 0; current_ticks
\* is not read again when the test fails
ExecIfDot ==
    /\ At("if_dot")
    /\ IF current_ticks > last_tick /\ current_ticks % TICK_PERIOD = 0
       THEN stack' = Advance /\ UNCHANGED current_ticks
       ELSE stack' = GoTo(Cur.to) /\ current_ticks' = 0
    /\ UNCHANGED << interrupts_enabled, locks, halted, ringVars, irqVars, scancode, last_tick,
                    heap_page, tables, otherVars >>

ExecSetLastTick ==
    /\ At("set_last_tick")
    /\ last_tick' = current_ticks
    /\ current_ticks' = 0
    /\ stack' = Advance
    /\ UNCHANGED << interrupts_enabled, locks, halted, ringVars, irqVars, scancode, heap_page,
                    tables, otherVars >>

ExecMatchScancode ==
    /\ At("match_scancode")
    /\ stack' = IF scancode = -1 THEN GoTo(Cur.to) ELSE Advance
    /\ UNCHANGED << interrupts_enabled, locks, halted, dataVars, otherVars >>

\* keyboard.add_byte and process_keyevent: the byte completes a key to
\* print, or it does not; scancode is not read again
ExecDecode ==
    /\ At("decode")
    /\ \/ stack' = Advance
       \/ stack' = GoTo(Cur.to)
    /\ scancode' = -1
    /\ UNCHANGED << interrupts_enabled, locks, halted, ringVars, irqVars, current_ticks,
                    last_tick, heap_page, tables, otherVars >>

\* --- pmm::init and init_heap ---
ExecInitBitmap ==
    /\ At("init_bitmap")
    /\ pmm_init
    /\ stack' = IF pmm_state' = "panicked" THEN GoTo(Cur.to) ELSE Advance
    /\ UNCHANGED << interrupts_enabled, locks, halted, dataVars, sysVars, elfVars >>

ExecAllocate ==
    /\ At("allocate")
    /\ allocate_frame(Top.arg)
    /\ stack' = Advance
    /\ UNCHANGED << interrupts_enabled, locks, halted, dataVars, sysVars, elfVars >>

\* for page in page_range
ExecForPage ==
    /\ At("for_page")
    /\ stack' = IF heap_page = KERNEL_HEAP_SIZE \div PAGE_SIZE
                 THEN GoTo(Cur.to) ELSE Advance
    /\ UNCHANGED << interrupts_enabled, locks, halted, dataVars, otherVars >>

\* .ok_or(MapToError::FrameAllocationFailed)?
ExecOkOr ==
    /\ At("ok_or")
    /\ stack' = IF pmm_call.ret = -1 THEN GoTo(Cur.to) ELSE Advance
    /\ UNCHANGED << interrupts_enabled, locks, halted, dataVars, otherVars >>

\* mapper.map_to: the bootloader maps the kernel image, its stack and the
\* direct map of physical memory, nothing at the heap's base, so that the
\* first page finds every level below the root missing and draws a frame for
\* each; the other pages share these tables
ExecMapTo ==
    /\ At("map_to")
    /\ IF heap_page = 0 /\ tables < TABLE_LEVELS
       THEN /\ stack' = Advance
            /\ UNCHANGED heap_page
       ELSE /\ heap_page' = heap_page + 1
            /\ stack' = GoTo(Cur.to)
    /\ UNCHANGED << interrupts_enabled, locks, halted, ringVars, irqVars,
                    scancode, current_ticks, last_tick, tables, otherVars >>

ExecTableLinked ==
    /\ At("table_linked")
    /\ tables' = tables + 1
    /\ stack' = GoTo(Cur.to)
    /\ UNCHANGED << interrupts_enabled, locks, halted, ringVars, irqVars, scancode,
                    current_ticks, last_tick, heap_page, otherVars >>

\* --- the start of the kernel: the bootloader jumps to _start with
\* interrupts disabled (uefi_boot/src/main.rs:370) ---
FlowBoot ==
    /\ interrupts_enabled = FALSE
    /\ locks = {}
    /\ stack = << Frame("_start", 0, FALSE) >>
    /\ halted = FALSE
    /\ TICKS = 0
    /\ buffer = [i \in 0..(BUFFER_SIZE - 1) |-> 0]
    /\ head = 0
    /\ tail = 0
    /\ port60 = 0
    /\ irq_scancode = 0
    /\ accepted = << >>
    /\ popped = << >>
    /\ scancode = -1
    /\ current_ticks = 0
    /\ last_tick = 0
    /\ heap_page = 0
    /\ tables = 0

\* the control flow where another specification leaves it
FlowIdle == FlowBoot /\ keys_left = 0 /\ ticks_left = 0

\* the CPU after jump_to_user's iretq: ring 3 with RFLAGS = 0x202, IF set
\* (elf_loader.rs:631)
UserBoot ==
    /\ interrupts_enabled = TRUE
    /\ locks = {}
    /\ stack = << Frame("user", 0, FALSE) >>
    /\ halted = FALSE
    /\ TICKS = 0
    /\ buffer = [i \in 0..(BUFFER_SIZE - 1) |-> 0]
    /\ head = 0
    /\ tail = 0
    /\ port60 = 0
    /\ irq_scancode = 0
    /\ accepted = << >>
    /\ popped = << >>
    /\ scancode = -1
    /\ current_ticks = 0
    /\ last_tick = 0
    /\ heap_page = 0
    /\ tables = 0

(***************************************************************************)
(* The user stack (kernel/src/elf_loader.rs, setup_user_stack).            *)
(***************************************************************************)
AT_NULL == 0
AT_PHDR == 3
AT_PHENT == 4
AT_PHNUM == 5
AT_PAGESZ == 6
AT_BASE == 7
AT_ENTRY == 9
AT_RANDOM == 25

\* 0x40_0000, where a position-independent executable is loaded
USER_BASE_ADDR == U64(4194304)

\* the bytes setup_user_stack reserves below the top of the stack
STACK_RESERVE == 256

\* the pages of the user stack: start_page to end_page, inclusive
STACK_PAGES == USER_STACK_SIZE \div PAGE_SIZE

\* a & !0xF
AndNotF(a) == [a EXCEPT ![1] = a[1] - (a[1] % 16)]

\* the stack pointer taken from the very top of the stack, nothing reserved
initial_sp_unreserved(stack_top) == AndNotF(stack_top)

\* sp = stack_top - 256, aligned down to 16 bytes
initial_sp(stack_top) ==
    AndNotF(wrapping_sub(stack_top, U64(STACK_RESERVE)))

\* the start address of stack page i, counted from stack_start
StackPage(i) ==
    wrapping_add(wrapping_sub(USER_STACK_BOTTOM, U64(USER_STACK_SIZE)),
                 U64(i * PAGE_SIZE))

\* n calls of frame_allocator.allocate_frame(): the frames they return, or
\* ok = FALSE when one of them returns None
RECURSIVE AllocFrames(_, _, _)
AllocFrames(bm, n, got) ==
    IF n = 0 THEN [ok |-> TRUE, bitmap |-> bm, frames |-> got]
    ELSE LET r == allocate_frame_internal(bm, total_frames, bitmap_size_u64)
         IN  IF r.ret = -1
             THEN [ok |-> FALSE, bitmap |-> r.bitmap, frames |-> got]
             ELSE AllocFrames(r.bitmap, n - 1,
                              Append(got, r.ret \div PAGE_SIZE))

\* the loop that maps the stack, from page i on: a frame for the page, then
\* map_to, which takes TABLE_LEVELS more frames for the page tables the
\* first page needs; ok = FALSE where an expect panics
RECURSIVE MapStackFrom(_, _, _, _)
MapStackFrom(bm, i, map, got) ==
    IF i >= STACK_PAGES
    THEN [ok |-> TRUE, bitmap |-> bm, map |-> map, frames |-> got]
    ELSE LET r == AllocFrames(bm, IF i = 0 THEN 1 + TABLE_LEVELS ELSE 1,
                              << >>)
         IN  IF ~r.ok
             THEN [ok |-> FALSE, bitmap |-> r.bitmap, map |-> map,
                   frames |-> got \o r.frames]
             ELSE MapStackFrom(r.bitmap, i + 1,
                               map @@ (StackPage(i) :> r.frames[1]),
                               got \o r.frames)

\* the closure write_to_stack: the store happens where translate_page finds
\* the page mapped
write_to_stack(mem, map, addr, value) ==
    IF AndNotFFF(addr) \in DOMAIN map
    THEN (addr :> value) @@ mem
    ELSE mem

\* the words setup_user_stack writes from sp upwards, in order
StackImage(hdr, sp) ==
    LET base_addr == IF hdr.is_pie THEN USER_BASE_ADDR ELSE U64(0)
        phdr_addr == wrapping_add(base_addr, hdr.ph_offset)
        entry_addr == wrapping_add(base_addr, hdr.entry_point)
    IN  << U64(0), U64(0), U64(0),
           U64(AT_PHDR), phdr_addr,
           U64(AT_PHENT), hdr.ph_entry_size,
           U64(AT_PHNUM), hdr.ph_count,
           U64(AT_PAGESZ), U64(4096),
           U64(AT_BASE), U64(0),
           U64(AT_ENTRY), entry_addr,
           U64(AT_RANDOM), wrapping_add(sp, U64(240)),
           U64(AT_NULL), U64(0) >>

\* the address of the k-th word above sp
SlotAddr(sp, k) == wrapping_add(sp, U64(8 * (k - 1)))

RECURSIVE WriteImage(_, _, _, _, _)
WriteImage(mem, map, sp, words, k) ==
    IF k > Len(words) THEN mem
    ELSE WriteImage(write_to_stack(mem, map, SlotAddr(sp, k), words[k]),
                    map, sp, words, k + 1)

\* setup_user_stack(mapper, frame_allocator, hhdm): maps and zeroes the stack
\* pages, writes argc, the argv and envp terminators and the auxiliary
\* vector, and returns sp; it panics when a frame or a mapping is refused
setup_user_stack ==
    /\ pmm_state = "ready"
    /\ stack_state = "none"
    /\ \E r \in {MapStackFrom(bitmap, 0, << >>, << >>)} :
           /\ bitmap' = r.bitmap
           /\ held' = held \cup {<< r.frames[k], 0 >> : k \in DOMAIN r.frames}
           /\ pmm_call' = [op |-> "alloc", arg |-> 0,
                           ret |-> IF r.ok THEN r.frames[Len(r.frames)] * PAGE_SIZE
                                   ELSE -1]
           /\ stack_map' = r.map
           /\ IF r.ok
              THEN LET sp == initial_sp(USER_STACK_BOTTOM)
                       words == StackImage(elf_header, sp)
                   IN  /\ stack_state' = "ready"
                       /\ user_rsp' = sp
                       /\ stack_words' = WriteImage(<< >>, r.map, sp, words, 1)
                       /\ stack_written' =
                              {SlotAddr(sp, k) : k \in DOMAIN words}
              ELSE /\ stack_state' = "panicked"
                   /\ UNCHANGED << user_rsp, stack_words, stack_written >>
    /\ UNCHANGED << memory_map, max_phys_memory, pmm_state, total_frames,
                    bitmap_size_u64, bitmap_start_addr, post_init, mismatched,
                    elf_header, loadVars, spinVars, sysVars, flowVars >>

\* --- load_user_elf ---
PT_LOAD == 1
MMAP_POOL_START == 4718592
MMAP_POOL_END == 5242880
LOAD_HEAP_START == 134217728
LOAD_HEAP_END == 135266304

\* Page::containing_address(addr), as a page number
PageOf(addr) == addr \div PAGE_SIZE

\* base_addr of load_user_elf
BaseAddr(hdr) == IF hdr.is_pie THEN ToNat(USER_BASE_ADDR) ELSE 0

\* start_page and end_page of load_segment
SegStartPage(ph) == PageOf(BaseAddr(elf_header) + ph.vaddr)
SegEndPage(ph) ==
    LET end_addr == BaseAddr(elf_header) + ph.vaddr + ph.memsz
    IN  PageOf(IF end_addr = 0 THEN 0 ELSE end_addr - 1)

\* page_flags of load_segment with WRITABLE set for every segment
segment_flags_writable(ph) ==
    [present |-> TRUE, user |-> TRUE, writable |-> TRUE,
     no_execute |-> ~ph.x]

\* page_flags of load_segment: PRESENT | USER_ACCESSIBLE, WRITABLE when the
\* segment is writable, NO_EXECUTE when it is not executable
segment_flags(ph) ==
    [present |-> TRUE, user |-> TRUE, writable |-> ph.w,
     no_execute |-> ~ph.x]

\* pool_flags, used for the mmap pool and for the heap
pool_flags ==
    [present |-> TRUE, user |-> TRUE, writable |-> TRUE, no_execute |-> TRUE]

\* the level-1, level-2 and level-3 tables a page's entry lies in
TablesOf(page) ==
    { << 1, page \div 512 >>, << 2, page \div (512 * 512) >>,
      << 3, page \div (512 * 512 * 512) >> }

\* one turn of a mapping loop at load_page: a mapped page is skipped; else
\* a frame is allocated, map_to maps the page (allocating the tables that
\* are missing) and the frame is zeroed; a refused frame makes expect panic
map_or_skip(flags) ==
    IF load_page \in DOMAIN page_table
    THEN /\ load_page' = load_page + 1
         /\ UNCHANGED << bitmap, held, pmm_call, page_table, page_data,
                         tables_built, load_state >>
    ELSE \E missing \in {TablesOf(load_page) \ tables_built} :
         \E r \in {AllocFrames(bitmap, 1 + Cardinality(missing), << >>)} :
            /\ bitmap' = r.bitmap
            /\ held' = held \cup {<< r.frames[k], 0 >> : k \in DOMAIN r.frames}
            /\ pmm_call' = [op |-> "alloc", arg |-> 0,
                            ret |-> IF r.ok
                                    THEN r.frames[Len(r.frames)] * PAGE_SIZE
                                    ELSE -1]
            /\ IF r.ok
               THEN /\ page_table' = page_table @@
                          (load_page :> [frame |-> r.frames[1], flags |-> flags])
                    /\ page_data' = page_data @@ (load_page :> << >>)
                    /\ tables_built' = tables_built \cup missing
                    /\ load_page' = load_page + 1
                    /\ UNCHANGED load_state
               ELSE /\ load_state' = "panicked"
                    /\ UNCHANGED << page_table, page_data, tables_built,
                                    load_page >>

LoadFrame ==
    UNCHANGED << memory_map, max_phys_memory, pmm_state, total_frames,
                 bitmap_size_u64, bitmap_start_addr, post_init, mismatched,
                 elf_header, stack_state, user_rsp, stack_map, stack_words,
                 stack_written, program_headers, spinVars, sysVars,
                 flowVars >>

\* load_user_elf is entered: the header is parsed, base_addr chosen
LoadBegin ==
    /\ pmm_state = "ready"
    /\ load_state = "none"
    /\ load_state' = "headers"
    /\ load_seg' = 1
    /\ UNCHANGED << bitmap, held, pmm_call, page_table, page_data,
                    tables_built, load_page >>
    /\ LoadFrame

\* for program_header in elf.program_iter(): a LOAD header with memsz > 0
\* starts the mapping loop of load_segment; after the last header the pool
\* loop starts
LoadNextHeader ==
    /\ load_state = "headers"
    /\ IF load_seg > Len(program_headers)
       THEN /\ load_state' = "pool"
            /\ load_page' = PageOf(MMAP_POOL_START)
            /\ UNCHANGED load_seg
       ELSE LET ph == program_headers[load_seg]
            IN  IF ph.type_ = PT_LOAD /\ ph.memsz # 0
                THEN /\ load_state' = "segment"
                     /\ load_page' = SegStartPage(ph)
                     /\ UNCHANGED load_seg
                ELSE /\ load_seg' = load_seg + 1
                     /\ UNCHANGED << load_state, load_page >>
    /\ UNCHANGED << bitmap, held, pmm_call, page_table, page_data,
                    tables_built >>
    /\ LoadFrame

\* for page in Page::range_inclusive(start_page, end_page) of load_segment
LoadSegmentPage ==
    /\ load_state = "segment"
    /\ IF load_page > SegEndPage(program_headers[load_seg])
       THEN /\ load_state' = "copy"
            /\ UNCHANGED << bitmap, held, pmm_call, page_table, page_data,
                            tables_built, load_page >>
       ELSE map_or_skip(segment_flags(program_headers[load_seg]))
    /\ UNCHANGED load_seg
    /\ LoadFrame

\* the pages the file bytes of a segment go to
CopyPages(ph) ==
    IF ph.filesz = 0 THEN {}
    ELSE PageOf(BaseAddr(elf_header) + ph.vaddr)
         ..PageOf(BaseAddr(elf_header) + ph.vaddr + ph.filesz - 1)

\* the copy loop of load_segment: the file bytes go through translate_page
\* to the frames of their pages; a page that is not mapped makes expect
\* panic
LoadCopy ==
    /\ load_state = "copy"
    /\ LET pages == CopyPages(program_headers[load_seg])
       IN  IF pages \subseteq DOMAIN page_table
           THEN /\ page_data' = [q \in DOMAIN page_data |->
                                   IF q \in pages
                                   THEN Append(page_data[q], load_seg)
                                   ELSE page_data[q]]
                /\ load_state' = "headers"
                /\ load_seg' = load_seg + 1
           ELSE /\ page_data' = [q \in DOMAIN page_data |->
                                   IF q \in pages
                                      /\ \A o \in pages : o <= q => o \in DOMAIN page_table
                                   THEN Append(page_data[q], load_seg)
                                   ELSE page_data[q]]
                /\ load_state' = "panicked"
                /\ UNCHANGED load_seg
    /\ UNCHANGED << bitmap, held, pmm_call, page_table, tables_built,
                    load_page >>
    /\ LoadFrame

\* the loop that pre-maps the mmap pool
LoadPoolPage ==
    /\ load_state = "pool"
    /\ IF load_page > PageOf(MMAP_POOL_END - 1)
       THEN /\ load_state' = "heap"
            /\ load_page' = PageOf(LOAD_HEAP_START)
            /\ UNCHANGED << bitmap, held, pmm_call, page_table, page_data,
                            tables_built >>
       ELSE map_or_skip(pool_flags)
    /\ UNCHANGED load_seg
    /\ LoadFrame

\* the loop that pre-maps the heap; after it load_user_elf returns the entry
\* point
LoadHeapPage ==
    /\ load_state = "heap"
    /\ IF load_page > PageOf(LOAD_HEAP_END - 1)
       THEN /\ load_state' = "done"
            /\ UNCHANGED << bitmap, held, pmm_call, page_table, page_data,
                            tables_built, load_page >>
       ELSE map_or_skip(pool_flags)
    /\ UNCHANGED load_seg
    /\ LoadFrame

\* load_user_elf has not been called
LoadNone ==
    /\ page_table = << >>
    /\ page_data = << >>
    /\ tables_built = {}
    /\ load_state = "none"
    /\ load_seg = 0
    /\ load_page = 0

\* the header of the embedded executable: a static one entered at 0x401000
\* with 3 program headers
ElfStatic ==
    [is_pie |-> FALSE, ph_offset |-> U64(64), ph_count |-> U64(3),
     ph_entry_size |-> U64(56), entry_point |-> U64(4198400)]

\* no user stack yet
ElfNone ==
    /\ stack_state = "none"
    /\ user_rsp = U64(0)
    /\ stack_map = << >>
    /\ stack_words = << >>
    /\ stack_written = {}

\* the loader's variables where another specification leaves them
ElfIdle ==
    /\ ElfNone
    /\ elf_header = ElfStatic
    /\ LoadNone
    /\ SpinIdle
    /\ program_headers = << >>

\* --- the inputs of the syscall specifications ---
MaxRandomLen == 1
MaxRandomBytes == 1
MaxIovecs == 2
MaxPoolAllocs == 3

\* the numbers the dispatcher's match has an arm for
TableNrs ==
    {SYS_READ, SYS_WRITE, SYS_FSTAT, SYS_POLL, SYS_MMAP, SYS_MPROTECT,
     SYS_MUNMAP, SYS_BRK, SYS_RT_SIGACTION, SYS_RT_SIGPROCMASK, SYS_IOCTL,
     SYS_WRITEV, SYS_MADVISE, SYS_EXIT, SYS_SIGALTSTACK, SYS_ARCH_PRCTL,
     SYS_SET_TID_ADDRESS, SYS_EXIT_GROUP, SYS_GETRANDOM}

\* numbers without an arm: the constants the file defines but never matches,
\* and some it does not define
OtherNrs ==
    {SYS_CLOSE, SYS_PREAD64, SYS_PWRITE64, SYS_FUTEX, SYS_CLOCK_GETTIME,
     2, 59, 9999}

\* first arguments of the dispatcher specification: 0, a page-aligned
\* address and 2^64 - 1
ArgValues == { U64(0), U64(4096), U64Max }

\* second arguments: half the mmap pool (0x40000) and 2^64 - 1
Arg2Values == { U64(262144), U64Max }

LenValues == { U64(0), U64(2) }

\* any syscall number with any arguments
UserSyscall ==
    \E nr \in (TableNrs \cup OtherNrs) \ {SYS_GETRANDOM, SYS_WRITEV} :
        \E arg1 \in ArgValues, arg2 \in Arg2Values :
            /\ nr = SYS_MMAP => pool_allocs < MaxPoolAllocs
            /\ handle_syscall(nr, arg1, arg2, U64(3), U64(34), << >>)

UserGetrandom ==
    \E n \in 0..MaxRandomLen :
        /\ random_bytes + n <= MaxRandomBytes
        /\ handle_syscall(SYS_GETRANDOM, MMAP_START, U64(n), U64(0), U64(0),
                          << >>)

UserWritev ==
    \E fd \in {U64(1), U64(5)}, n \in 0..MaxIovecs :
        \E iovecs \in [1..n -> [base : {MMAP_START}, len : LenValues]] :
            handle_syscall(SYS_WRITEV, fd, MMAP_START, U64(n), U64(0), iovecs)

SysNext == UserSyscall \/ UserGetrandom \/ UserWritev

\* the dispatcher under every syscall number
SysSpecInit == SysInit /\ PmmIdle /\ FlowIdle /\ ElfIdle

SpecSys == SysSpecInit /\ [][SysNext]_vars

\* arguments of brk: 0, below the heap base (0x1000), inside the pre-mapped
\* heap (0x8001000, 0x80FF000), 2^33 and 2^64 - 1
BrkArgs ==
    { U64(0), U64(4096), U64(134221824), U64(135262208),
      << 0, 0, 0, 0, 2, 0, 0, 0 >>, U64Max }

\* addresses of mmap: 0, a nonzero address below 0x1000, a fixed address
MmapAddrs == { U64(0), U64(1), U64(65536) }

\* lengths of mmap: 0, 1, 0x2000, the pool size 0x80000, one byte more,
\* 2^64 - 0x480000 and 2^64 - 1
MmapLengths ==
    { U64(0), U64(1), U64(8192), U64(524288), U64(524289),
      wrapping_sub(U64(0), MMAP_START), U64Max }

UserBrk ==
    \E addr \in BrkArgs :
        handle_syscall(SYS_BRK, addr, U64(0), U64(0), U64(0), << >>)

UserMmap ==
    \E addr \in MmapAddrs, length \in MmapLengths :
        /\ pool_allocs < MaxPoolAllocs
        /\ handle_syscall(SYS_MMAP, addr, length, U64(3), U64(34), << >>)

MemNext == UserBrk \/ UserMmap

\* brk and mmap under a wide range of arguments
SpecMem == SysSpecInit /\ [][MemNext]_vars

\* --- write and read ---
MaxWriteLen == 2

\* the bytes a user buffer holds: 'A', the two bytes of U+00E9 in UTF-8
\* (0xC3 0xA9) and 0xFF, which no UTF-8 text contains
ByteValues == { 65, 195, 169, 255 }

\* descriptors: stdin, stdout, stderr and one that is not open
FdValues == { U64(0), U64(1), U64(2), U64(5) }

UserStore ==
    \E bytes \in [1..MaxWriteLen -> ByteValues] : user_store(bytes)

UserWrite ==
    \E fd \in FdValues, count \in 0..MaxWriteLen :
        handle_syscall(SYS_WRITE, fd, USER_BUF, U64(count), U64(0), << >>)

\* write from an address nothing is mapped at
UserWriteUnmapped ==
    \E fd \in FdValues :
        handle_syscall(SYS_WRITE, fd, U64(0), U64(1), U64(0), << >>)

UserRead ==
    \E fd \in FdValues, count \in 0..MaxWriteLen :
        handle_syscall(SYS_READ, fd, USER_BUF, U64(count), U64(0), << >>)

WriteNext == UserStore \/ UserWrite \/ UserWriteUnmapped \/ UserRead

\* write and read on every descriptor, over every content of the buffer
SpecWrite == SysSpecInit /\ [][WriteNext]_vars

\* --- arch_prctl ---
\* base addresses: 0xDEAD0000, 1, the canonical 0xFFFF_8000_0000_0000 and
\* the non-canonical 0x8000_0000_0000
BaseValues ==
    { << 0, 0, 173, 222, 0, 0, 0, 0 >>, U64(1),
      << 0, 0, 0, 0, 0, 128, 255, 255 >>, << 0, 0, 0, 0, 0, 128, 0, 0 >> }

\* where ARCH_GET_* stores: the pool, the heap, the unmapped page 0, and
\* the words of the kernel's save area that hold the user RIP and R12
OutPointers == { MMAP_START, HEAP_START, U64(8), SavedSlot(2), SavedSlot(12) }

UserSetBase ==
    \E code \in {ARCH_SET_FS, ARCH_SET_GS}, v \in BaseValues :
        handle_syscall(SYS_ARCH_PRCTL, U64(code), v, U64(0), U64(0), << >>)

UserGetBase ==
    \E code \in {ARCH_GET_FS, ARCH_GET_GS}, p \in OutPointers :
        handle_syscall(SYS_ARCH_PRCTL, U64(code), p, U64(0), U64(0), << >>)

\* codes arch_prctl has no arm for
UserBadCode ==
    \E code \in {0, 4096, 4101}, v \in BaseValues :
        handle_syscall(SYS_ARCH_PRCTL, U64(code), v, U64(0), U64(0), << >>)

PrctlNext == UserSetBase \/ UserGetBase \/ UserBadCode

\* arch_prctl under every code
SpecPrctl == SysSpecInit /\ [][PrctlNext]_vars

\* the syscall variables where another specification leaves them
SysIdle == SysInit /\ overflow_checks = FALSE

PmmNext == PmmInit \/ AllocateFrame \/ FreeFrame

\* the frame allocator: init on a firmware map, then any allocate_frame and
\* free_frame calls
PmmSpecInit == PmmBoot /\ SysIdle /\ FlowIdle /\ ElfIdle

SpecPmm == PmmSpecInit /\ [][PmmNext]_vars

SpinNext ==
    \E c \in Contexts :
        SpinEnter(c) \/ SpinTry(c) \/ GuardRead(c) \/ GuardWrite(c) \/ GuardDrop(c)

SpinInit == SysIdle /\ PmmIdle /\ FlowIdle /\ ElfIdle

\* NumContexts contexts taking and dropping one Spinlock in any interleaving
SpecSpin == SpinInit /\ [][SpinNext]_vars

\* --- the inputs of the kernel specifications ---
MaxKeys == 66
MaxFlowKeys == 2
MaxTicks == 20
MaxUserTicks == 2

\* firmware maps the kernel boots on: 40 frames of Conventional memory from
\* frame 1 on; 2 frames, too few for the heap; no Conventional memory
BootMaps ==
    { << [type_ |-> 7, phys_start |-> 4096, page_count |-> 40] >>,
      << [type_ |-> 7, phys_start |-> 8192, page_count |-> 2] >>,
      << [type_ |-> 0, phys_start |-> 4096, page_count |-> 1] >> }

\* the steps every routine is made of
FlowSteps ==
    \/ ExecCall \/ ExecRet \/ ExecJump \/ ExecInit
    \/ ExecLock \/ ExecUnlock
    \/ ExecCli \/ ExecSti \/ ExecWiEnter \/ ExecWiExit \/ ExecStiHlt
    \/ ExecInitBitmap \/ ExecAllocate
    \/ ExecForPage \/ ExecOkOr \/ ExecMapTo \/ ExecTableLinked
    \/ ExecPop \/ ExecTicksRead \/ ExecIfDot \/ ExecMatchScancode
    \/ ExecDecode
    \/ KeyboardIrq \/ ExecPortRead \/ ExecPush \/ ExecIretq

RingInit ==
    /\ FlowBoot
    /\ keys_left = MaxKeys
    /\ ticks_left = 0
    /\ memory_map = << [type_ |-> 7, phys_start |-> 4096, page_count |-> 40] >>
    /\ max_phys_memory = BootMaxPhysAddr(memory_map)
    /\ PmmUninit
    /\ SysIdle
    /\ ElfIdle

RingNext == FlowSteps

\* the kernel from _start on with the keyboard raising up to MaxKeys
\* interrupts and the timer silent
SpecRing == RingInit /\ [][RingNext]_vars

KernelInit ==
    /\ FlowBoot
    /\ keys_left = MaxFlowKeys
    /\ ticks_left = MaxTicks
    /\ memory_map \in BootMaps
    /\ max_phys_memory = BootMaxPhysAddr(memory_map)
    /\ PmmUninit
    /\ SysIdle
    /\ ElfIdle

KernelNext ==
    \/ FlowSteps
    \/ TimerIrq \/ ExecTicksInc \/ ExecSetLastTick
    \/ ExecForceLock \/ ExecHltLoop

\* the kernel from _start on, on every boot map, with both interrupt
\* sources
SpecKernel == KernelInit /\ [][KernelNext]_vars

UserInit ==
    /\ UserBoot
    /\ keys_left = MaxFlowKeys
    /\ ticks_left = MaxUserTicks
    /\ memory_map = << [type_ |-> 7, phys_start |-> 4096, page_count |-> 40] >>
    /\ max_phys_memory = BootMaxPhysAddr(memory_map)
    /\ PmmUninit
    /\ SysIdle
    /\ ElfIdle

UserNext ==
    \/ ExecSyscall \/ ExecDispatch \/ ExecSysretq
    \/ ExecCall \/ ExecRet \/ ExecJump
    \/ ExecLock \/ ExecUnlock \/ ExecWiEnter \/ ExecWiExit \/ ExecHltLoop
    \/ TimerIrq \/ ExecTicksInc
    \/ KeyboardIrq \/ ExecPortRead \/ ExecPush \/ ExecIretq

\* the user program making syscalls, with both interrupt sources
SpecUser == UserInit /\ [][UserNext]_vars

PanicInit ==
    /\ FlowBoot
    /\ keys_left = MaxFlowKeys
    /\ ticks_left = 0
    /\ memory_map = << [type_ |-> 7, phys_start |-> 4096, page_count |-> 40] >>
    /\ max_phys_memory = BootMaxPhysAddr(memory_map)
    /\ PmmUninit
    /\ SysIdle
    /\ ElfIdle

PanicNext == FlowSteps \/ ExecForceLock \/ ExecHltLoop \/ Panic

\* the kernel from _start on, on a CPU that keeps executing, with a panic
\* possible at every step
SpecPanic == PanicInit /\ [][PanicNext]_vars /\ WF_vars(PanicNext)

\* the same kernel on a CPU that keeps executing: whenever a step is
\* possible, one is taken
SpecKernelLive == KernelInit /\ [][KernelNext]_vars /\ WF_vars(KernelNext)

\* --- the inputs of the loader specification ---
\* headers of the embedded executable: static or position-independent, with
\* no, 3 or 65535 program headers, entered at 0x1000 or at 0
ElfHeaders ==
    [is_pie : BOOLEAN, ph_offset : {U64(64)}, ph_count : {U64(0), U64(3), U64(65535)},
     ph_entry_size : {U64(56)}, entry_point : {U64(0), U64(4096)}]

ElfInit ==
    /\ ElfNone
    /\ LoadNone
    /\ SpinIdle
    /\ program_headers = << >>
    /\ elf_header \in ElfHeaders
    /\ memory_map \in BootMaps
    /\ max_phys_memory = BootMaxPhysAddr(memory_map)
    /\ PmmUninit
    /\ SysIdle
    /\ FlowIdle

\* frames the kernel takes before it builds the user stack
EarlierAllocation ==
    /\ stack_state = "none"
    /\ allocate_frame(1)
    /\ UNCHANGED << sysVars, flowVars, elfVars >>

SetupUserStack == setup_user_stack

ElfNext == PmmInit \/ EarlierAllocation \/ SetupUserStack

\* the allocator initialised on a boot map, any number of frames taken, then
\* setup_user_stack
SpecElf == ElfInit /\ [][ElfNext]_vars

\* --- the inputs of the image-loading specification ---
\* a position-independent header
ElfPie == [ElfStatic EXCEPT !.is_pie = TRUE, !.entry_point = U64(4096)]

Ph(type_, vaddr, memsz, filesz, w, x) ==
    [type_ |-> type_, vaddr |-> vaddr, memsz |-> memsz, filesz |-> filesz,
     w |-> w, x |-> x]

\* executables that may be embedded as USER_ELF_BYTES: a static one with
\* text and data on pages of their own; a static one whose data starts on
\* the last page of its text; a position-independent one with a read-only,
\* a text and a data segment and an empty LOAD header; a static one linked
\* at 0x47F000, whose text and data reach into the mmap pool; one whose
\* file size exceeds its memory size
ElfImages ==
    { [header |-> ElfStatic,
       phdrs |-> << Ph(6, 4194368, 168, 168, FALSE, FALSE),
                    Ph(PT_LOAD, 4194304, 4660, 4660, FALSE, TRUE),
                    Ph(PT_LOAD, 4206080, 9472, 768, TRUE, FALSE) >>],
      [header |-> ElfStatic,
       phdrs |-> << Ph(PT_LOAD, 4194304, 6144, 6144, FALSE, TRUE),
                    Ph(PT_LOAD, 4200704, 4096, 512, TRUE, FALSE) >>],
      [header |-> ElfPie,
       phdrs |-> << Ph(PT_LOAD, 0, 4096, 4096, FALSE, FALSE),
                    Ph(PT_LOAD, 4096, 5000, 5000, FALSE, TRUE),
                    Ph(PT_LOAD, 0, 0, 0, TRUE, FALSE),
                    Ph(PT_LOAD, 12032, 8192, 1024, TRUE, FALSE) >>],
      [header |-> ElfStatic,
       phdrs |-> << Ph(PT_LOAD, 4714496, 8192, 8192, FALSE, TRUE),
                    Ph(PT_LOAD, 4722688, 4096, 256, TRUE, FALSE) >>],
      [header |-> ElfStatic,
       phdrs |-> << Ph(PT_LOAD, 4194304, 4096, 8192, FALSE, TRUE) >>] }

\* firmware maps: 510 frames of Conventional memory, enough for every
\* image, the pool and the heap; 40 frames, too few
LoadMaps ==
    { << [type_ |-> 7, phys_start |-> 4096, page_count |-> 510] >>,
      << [type_ |-> 7, phys_start |-> 4096, page_count |-> 40] >> }

\* the bitmap BitmapPmm::init leaves, bit by bit: a frame is free exactly
\* when it lies below total_frames in a Conventional entry and is neither
\* frame 0 nor a page of the bitmap
InitialisedBitmap(map, frames, size_u64, bitmap_phys_addr) ==
    LET bitmap_pages == (size_u64 * 8 + PAGE_SIZE - 1) \div PAGE_SIZE
        first == bitmap_phys_addr \div PAGE_SIZE
        Free(i) ==
            /\ i < frames
            /\ i # 0
            /\ i \notin first..(first + bitmap_pages - 1)
            /\ \E k \in DOMAIN map :
                   /\ map[k].type_ = CONVENTIONAL
                   /\ i \in FramesOf(map[k])
    IN  [w \in 0..(size_u64 - 1) |->
            {b \in ALL_ONES : ~Free(w * WORD_BITS + b)}]

\* the allocator as pmm::init leaves it on the firmware map
PmmInitialised ==
    /\ max_phys_memory = BootMaxPhysAddr(memory_map)
    /\ pmm_state = "ready"
    /\ total_frames = max_phys_memory \div PAGE_SIZE
    /\ bitmap_size_u64 = (total_frames + (WORD_BITS - 1)) \div WORD_BITS
    /\ bitmap_start_addr = FindBitmapRegion(memory_map, bitmap_size_u64 * 8, 1)
    /\ bitmap = InitialisedBitmap(memory_map, total_frames, bitmap_size_u64,
                                  bitmap_start_addr)
    /\ post_init = bitmap
    /\ held = {}
    /\ mismatched = FALSE
    /\ pmm_call = [NoPmmCall EXCEPT !.op = "init"]

LoadInit ==
    /\ \E image \in ElfImages :
           /\ elf_header = image.header
           /\ program_headers = image.phdrs
    /\ ElfNone
    /\ LoadNone
    /\ SpinIdle
    /\ memory_map \in LoadMaps
    /\ PmmInitialised
    /\ SysIdle
    /\ FlowIdle

LoadNext ==
    \/ LoadBegin \/ LoadNextHeader \/ LoadSegmentPage \/ LoadCopy
    \/ LoadPoolPage \/ LoadHeapPage

\* load_user_elf on an embedded executable, the allocator initialised
SpecLoad == LoadInit /\ [][LoadNext]_vars

(***************************************************************************)
(* Claims about the physical frame allocator.                              *)
(***************************************************************************)
\* bit i of the bitmap bm is 1
BitSet(bm, i) == (i % 64) \in bm[i \div 64]

\* frame i lies inside some ConventionalMemory entry of the firmware map
InConventional(i) ==
    \E k \in DOMAIN memory_map :
        /\ memory_map[k].type_ = 7
        /\ memory_map[k].phys_start <= i * 4096
        /\ (i + 1) * 4096 <=
               memory_map[k].phys_start + memory_map[k].page_count * 4096

\* the frames the bitmap itself occupies
BitmapFrames ==
    { i \in 0..(total_frames - 1) :
        /\ bitmap_start_addr < (i + 1) * 4096
        /\ i * 4096 < bitmap_start_addr + bitmap_size_u64 * 8 }

\* C1: allocate_frame never returns a frame it returned earlier unless
\* free_frame was called on it in between, and a frame that a caller holds
\* is not free in the bitmap and is held by that caller alone.
C1_NoDoubleAllocation ==
    /\ [](pmm_state = "ready" =>
            \A h \in held :
                /\ BitSet(bitmap, h[1])
                /\ \A g \in held : g[1] = h[1] => g = h)
    /\ [][ (pmm_call'.op = "alloc" /\ pmm_call'.ret # -1) =>
               ~\E h \in held : h[1] * 4096 = pmm_call'.ret ]_vars

\* a frame was returned, freed and returned again, now to the other caller,
\* while another frame is held too
C1_Witness ==
    /\ pmm_call.op = "alloc"
    /\ pmm_call.ret = 3 * 4096
    /\ ~mismatched
    /\ held = { << 3, 2 >>, << 63, 1 >> }

\* C2: right after init, bit i (i < total_frames) is 0 exactly when frame i
\* lies inside some ConventionalMemory entry, is not frame 0 and is not a
\* frame of the bitmap; every other bit of the bitmap is 1.
C2_InitWhitelist ==
    [][ (pmm_call'.op = "init" /\ pmm_state' = "ready") =>
            /\ \A i \in 0..(total_frames' - 1) :
                   ~BitSet(bitmap', i) <=>
                       (InConventional(i) /\ i # 0 /\ i \notin BitmapFrames')
            /\ \A i \in total_frames'..(bitmap_size_u64' * 64 - 1) :
                   BitSet(bitmap', i) ]_vars

\* init has run on a map with Conventional memory at 0:
\* frame 0 and the bitmap's frame are used though Conventional, frame 3 is free
C2_Witness ==
    /\ pmm_call.op = "init"
    /\ pmm_state = "ready"
    /\ InConventional(0) /\ BitSet(post_init, 0)
    /\ bitmap_start_addr = 2 * 4096 /\ BitSet(post_init, 2)
    /\ ~BitSet(post_init, 3)
    /\ ~BitSet(post_init, 1)

\* C3: allocate_frame returns None exactly when every bit below
\* total_frames is 1, and then it leaves the bitmap unchanged.
C3_NoneIffFull ==
    [][ pmm_call'.op = "alloc" =>
            /\ (pmm_call'.ret = -1) <=>
                   (\A i \in 0..(total_frames - 1) : BitSet(bitmap, i))
            /\ pmm_call'.ret = -1 => bitmap' = bitmap ]_vars

\* allocate_frame has returned None with every frame handed out
C3_Witness ==
    /\ pmm_call.op = "alloc"
    /\ pmm_call.ret = -1
    /\ Cardinality(held) = 3
    /\ \A i \in 0..(total_frames - 1) : BitSet(bitmap, i)

\* C4: when every frame allocate_frame returned has been freed once and
\* nothing else was freed, the bitmap equals the bitmap right after init.
C4_MatchedFreesRestore ==
    (pmm_state = "ready" /\ ~mismatched /\ held = {}) => bitmap = post_init

\* the last of several held frames has just been freed
C4_Witness ==
    /\ pmm_call.op = "free"
    /\ pmm_call.arg = 64 * 4096
    /\ ~mismatched
    /\ held = {}
    /\ bitmap = post_init

\* C5 (as claimed): whatever page-aligned addresses below max_phys
\* free_frame is given, bit 0 and the bits of the bitmap's own frames stay
\* set, and allocate_frame never returns address 0 or a frame of the bitmap.
C5_ReservedStayUsed ==
    /\ [](pmm_state = "ready" =>
            /\ BitSet(bitmap, 0)
            /\ \A i \in BitmapFrames : BitSet(bitmap, i))
    /\ [][ (pmm_call'.op = "alloc" /\ pmm_call'.ret # -1) =>
               /\ pmm_call'.ret # 0
               /\ (pmm_call'.ret \div 4096) \notin BitmapFrames ]_vars

(***************************************************************************)
(* Claims about the syscall dispatcher.                                    *)
(***************************************************************************)
\* the dispatch table as the specification lists it
ListedNrs == {0, 1, 5, 7, 9, 10, 11, 12, 13, 14, 16, 20, 28, 60, 131, 158,
              218, 231, 318}

\* C8: a syscall whose number is not in the listed dispatch table returns
\* -38 (ENOSYS) to the user, whatever its arguments, and leaves the current
\* break, the mmap pool cursor and the getrandom seed as they were.
C8_UnknownReturnsEnosys ==
    [][ sc_call'.nr \notin ListedNrs =>
            /\ sc_call'.returned
            /\ rax' = I64Neg(38)
            /\ CURRENT_BRK' = CURRENT_BRK
            /\ MMAP_NEXT' = MMAP_NEXT
            /\ SEED' = SEED ]_vars

\* an unknown number (9999) has returned -38 after brk, mmap and getrandom
\* had moved the break, the cursor and the seed
C8_Witness ==
    /\ sc_call.nr = 9999
    /\ sc_call.returned
    /\ rax = I64Neg(38)
    /\ CURRENT_BRK # BRK_INITIAL
    /\ MMAP_NEXT # MMAP_START
    /\ SEED # SEED_INITIAL

\* C9: brk(0) returns the current break and leaves it; brk(x) with x # 0
\* returns x and makes x the break; nothing but a nonzero brk changes the
\* break, so every later brk(0) returns x; before any call the break is
\* 0x8000000.
C9_BrkRoundTrip ==
    /\ [](sc_call.nr = -1 => CURRENT_BRK = U64(134217728))
    /\ [][ /\ (sc_call'.nr = SYS_BRK /\ sc_call'.arg1 = U64(0)) =>
                (rax' = CURRENT_BRK /\ CURRENT_BRK' = CURRENT_BRK)
           /\ (sc_call'.nr = SYS_BRK /\ sc_call'.arg1 # U64(0)) =>
                (rax' = sc_call'.arg1 /\ CURRENT_BRK' = sc_call'.arg1)
           /\ sc_call'.nr # SYS_BRK => CURRENT_BRK' = CURRENT_BRK ]_vars

\* brk(0) has returned 2^64 - 1, the value an earlier brk(2^64 - 1) set
C9_Witness ==
    /\ sc_call.nr = SYS_BRK
    /\ sc_call.arg1 = U64(0)
    /\ sc_call.returned
    /\ rax = U64Max
    /\ CURRENT_BRK = U64Max

\* C10 (as claimed): an mmap call with addr = 0 and length L > 0 that does
\* not return -12 returns a page-aligned address A with [A, A+L) inside the
\* pool [0x480000, 0x500000), and a call whose page-rounded length does not
\* fit in what is left of the pool returns -12.
C10_MmapInsidePool ==
    [][ ( /\ sc_call'.nr = SYS_MMAP
          /\ sc_call'.arg1 = U64(0)
          /\ sc_call'.arg2 # U64(0)
          /\ sc_call'.returned ) =>
        LET L == sc_call'.arg2
            left == wrapping_sub(U64(5242880), MMAP_NEXT)
        IN  /\ rax' # I64Neg(12) =>
                /\ IsPageAligned(rax')
                /\ U64Le(U64(4718592), rax')
                /\ ~AddOverflows(rax', L)
                /\ U64Le(wrapping_add(rax', L), U64(5242880))
            /\ U64Lt(left, L) => rax' = I64Neg(12) ]_vars


(***************************************************************************)
(* Claims about the scancode ring and the kernel's locks.                  *)
(***************************************************************************)
IsPrefix(s, t) ==
    /\ Len(s) <= Len(t)
    /\ \A i \in 1..Len(s) : s[i] = t[i]

Unread == Len(accepted) - Len(popped)

\* C6: under any interleaving of the keyboard interrupt and the main loop,
\* the bytes pop_scancode returned are, in order, a prefix of the bytes
\* add_scancode stored; add_scancode drops a byte only when the ring is
\* full; and pop_scancode returns None exactly when no stored byte is unread.
C6_PopsArePrefixOfPushes ==
    /\ [](IsPrefix(popped, accepted))
    /\ [][ /\ (At("push") /\ accepted' = accepted) => Unread = BUFFER_SIZE - 1
           /\ At("pop") => ((scancode' = -1) <=> (Unread = 0)) ]_vars

\* the ring has wrapped around, a byte was dropped on overflow, and bytes
\* were popped before and after it
C6_Witness ==
    /\ Len(stack) = 1
    /\ Len(accepted) > BUFFER_SIZE
    /\ MaxKeys - keys_left > Len(accepted)
    /\ head < tail
    /\ Len(popped) > 2

KernelLocks == {"PMM", "HEAP", "SERIAL", "WRITER", "KEYBOARD_BUFFER"}

\* C7: whenever the PMM spinlock, the heap mutex, the serial mutex, the
\* WRITER mutex or the keyboard ring mutex is held, RFLAGS.IF is clear; a lock
\* is taken only with interrupts disabled, and interrupts are enabled only
\* with no lock held.
C7_LocksHeldWithInterruptsOff ==
    /\ []((locks \cap KernelLocks # {}) => ~interrupts_enabled)
    /\ [][ /\ ((locks' \ locks) \cap KernelLocks # {}) => ~interrupts_enabled
           /\ (~interrupts_enabled /\ interrupts_enabled')
                  => (locks \cap KernelLocks = {}) ]_vars

\* after interrupts were enabled and both handlers have run, the main loop
\* holds WRITER inside a print
C7_Witness ==
    /\ "WRITER" \in locks
    /\ TICKS > 0
    /\ Len(accepted) > 0
    /\ ~interrupts_enabled

(***************************************************************************)
(* Claims about write, read, arch_prctl, exit and the returned values.     *)
(***************************************************************************)
\* C11 (as claimed): a write on descriptor 1 or 2 that returns has returned
\* count and has sent exactly the count bytes of the buffer, in order, to the
\* framebuffer and to the serial port; on any other descriptor it has
\* returned -9 and sent nothing.
C11_WriteCopiesBuffer ==
    [][ ( /\ sc_call'.nr = SYS_WRITE
          /\ sc_call'.returned
          /\ user_buf' = user_buf ) =>
        LET bytes == Slice(sc_call'.arg2, sc_call'.arg3)
        IN  IF sc_call'.arg1 \in {U64(1), U64(2)}
            THEN /\ rax' = sc_call'.arg3
                 /\ screen_out' = bytes
                 /\ serial_out' = bytes
            ELSE /\ rax' = I64Neg(9)
                 /\ screen_out' = << >>
                 /\ serial_out' = << >> ]_vars

\* C12: arch_prctl(ARCH_SET_FS, v) that returns has returned 0, left v in
\* the FS base and kept the GS base; ARCH_GET_FS that returns has returned 0
\* and stored the FS base at its pointer; likewise with FS and GS swapped;
\* any other code returns -22; and nothing but a returned ARCH_SET_ call
\* changes a base, so what ARCH_GET_ stores is the value last set.
C12_ArchPrctlRoundTrip ==
    [][ LET code == sc_call'.arg1
            addr == sc_call'.arg2
            kept == FS_BASE' = FS_BASE /\ GS_BASE' = GS_BASE
        IN  /\ sc_call'.nr = SYS_ARCH_PRCTL
            /\ CASE code = U64(4098) /\ sc_call'.returned ->
                        /\ rax' = U64(0)
                        /\ FS_BASE' = addr
                        /\ GS_BASE' = GS_BASE
                   [] code = U64(4097) /\ sc_call'.returned ->
                        /\ rax' = U64(0)
                        /\ GS_BASE' = addr
                        /\ FS_BASE' = FS_BASE
                   [] code = U64(4099) /\ sc_call'.returned ->
                        /\ rax' = U64(0)
                        /\ stored' = [addr |-> addr, value |-> FS_BASE,
                                      done |-> TRUE]
                        /\ kept
                   [] code = U64(4100) /\ sc_call'.returned ->
                        /\ rax' = U64(0)
                        /\ stored' = [addr |-> addr, value |-> GS_BASE,
                                      done |-> TRUE]
                        /\ kept
                   [] code \notin {U64(4097), U64(4098), U64(4099),
                                   U64(4100)} ->
                        /\ sc_call'.returned
                        /\ rax' = I64Neg(22)
                        /\ ~stored'.done
                        /\ kept
                   [] OTHER -> kept ]_vars

\* ARCH_GET_FS has stored 0xDEAD0000 in the pool while the GS base holds
\* another value that was set
C12_Witness ==
    /\ sc_call.nr = SYS_ARCH_PRCTL
    /\ sc_call.arg1 = U64(ARCH_GET_FS)
    /\ sc_call.returned
    /\ rax = U64(0)
    /\ stored = [addr |-> MMAP_START, value |-> << 0, 0, 173, 222, 0, 0, 0, 0 >>,
                 done |-> TRUE]
    /\ GS_BASE = U64(1)

\* C13: once exit (60) or exit_group (231) has been dispatched, its status
\* has been logged, the handler has not returned, the kernel is in the hlt
\* loop, and from then on no state changes: no later syscall is dispatched
\* and the user never runs again.
C13_ExitHaltsForever ==
    /\ [](sc_call.nr \in {60, 231} =>
            /\ sc_state = "halted"
            /\ ~sc_call.returned
            /\ \E i \in DOMAIN kernel_log :
                   kernel_log[i] =
                       Line("[KERNEL] User process exited with status: {}",
                            << sc_call.arg1 >>))
    /\ [][ sc_state = "halted" =>
               /\ sc_state' = "halted"
               /\ sc_call' = sc_call
               /\ rax' = rax ]_vars

\* exit_group(4096) halted the kernel after brk and mmap calls had returned
C13_Witness ==
    /\ sc_call.nr = SYS_EXIT_GROUP
    /\ sc_call.arg1 = U64(4096)
    /\ sc_state = "halted"
    /\ CURRENT_BRK # BRK_INITIAL
    /\ MMAP_NEXT # MMAP_START

\* C14 (as claimed): read returns 0 on descriptor 0 and -9 on every other
\* descriptor.
C14_ReadOtherFdEbadf ==
    (sc_call.nr = SYS_READ /\ sc_call.returned) =>
        rax = IF sc_call.arg1 = U64(0) THEN U64(0) ELSE I64Neg(9)

\* the errno values the kernel returns, negated
KernelErrnos == { I64Neg(9), I64Neg(12), I64Neg(22), I64Neg(25), I64Neg(38) }

\* C15 (as claimed): a value the dispatcher returns in RAX that is negative
\* as an i64 is one of -9, -12, -22, -25, -38.
C15_NegativeIsErrno ==
    (sc_call.returned /\ IsNegativeI64(rax)) => rax \in KernelErrnos

(***************************************************************************)
(* Claims about the user stack.                                            *)
(***************************************************************************)
\* the page of addr is one of the mapped stack pages
StackMapped(addr) == AndNotFFF(addr) \in DOMAIN stack_map

\* the u64 the user reads at addr of a mapped stack page: the word written
\* there, or the zero the page was filled with
ReadStack(addr) ==
    IF addr \in DOMAIN stack_words THEN stack_words[addr] ELSE U64(0)

\* the (tag, value) pairs the user reads from addr on, up to and including
\* the first pair tagged AT_NULL, or up to the end of the mapped stack
RECURSIVE AuxvFrom(_)
AuxvFrom(addr) ==
    IF ~StackMapped(addr) \/ ~StackMapped(wrapping_add(addr, U64(8)))
    THEN << >>
    ELSE LET pair == << ReadStack(addr), ReadStack(wrapping_add(addr, U64(8))) >>
         IN  IF pair[1] = U64(0) THEN << pair >>
             ELSE << pair >> \o AuxvFrom(wrapping_add(addr, U64(16)))

\* C16: after setup_user_stack has returned, RSP is 16-byte aligned and
\* inside the mapped stack; the words at RSP, RSP+8 and RSP+16 are 0; from
\* RSP+24 on the user reads (tag, value) pairs that end with (AT_NULL, 0) and
\* contain AT_PHDR, AT_PHENT, AT_PHNUM and AT_ENTRY with the values of the
\* executable's header and AT_PAGESZ = 4096; and every address written lies
\* in a mapped stack page.
C16_InitialStackLayout ==
    stack_state = "ready" =>
        LET stack_start == wrapping_sub(USER_STACK_BOTTOM, U64(65536))
            base == IF elf_header.is_pie THEN U64(4194304) ELSE U64(0)
            auxv == AuxvFrom(wrapping_add(user_rsp, U64(24)))
        IN  /\ user_rsp[1] % 16 = 0
            /\ InWindow(user_rsp, U64(8), stack_start, USER_STACK_BOTTOM)
            /\ \A k \in 0..2 :
                   /\ StackMapped(wrapping_add(user_rsp, U64(8 * k)))
                   /\ ReadStack(wrapping_add(user_rsp, U64(8 * k))) = U64(0)
            /\ Len(auxv) > 0
            /\ auxv[Len(auxv)] = << U64(0), U64(0) >>
            /\ \E i \in DOMAIN auxv :
                   auxv[i] = << U64(3), wrapping_add(base, elf_header.ph_offset) >>
            /\ \E i \in DOMAIN auxv :
                   auxv[i] = << U64(4), elf_header.ph_entry_size >>
            /\ \E i \in DOMAIN auxv :
                   auxv[i] = << U64(5), elf_header.ph_count >>
            /\ \E i \in DOMAIN auxv : auxv[i] = << U64(6), U64(4096) >>
            /\ \E i \in DOMAIN auxv :
                   auxv[i] = << U64(9), wrapping_add(base, elf_header.entry_point) >>
            /\ \A a \in stack_written :
                   /\ StackMapped(a)
                   /\ InWindow(a, U64(8), stack_start, USER_STACK_BOTTOM)

\* the stack of a position-independent executable with 3 program headers
\* has been built after the kernel had taken frames of its own
C16_Witness ==
    /\ stack_state = "ready"
    /\ elf_header.is_pie
    /\ elf_header.ph_count = U64(3)
    /\ Cardinality(stack_written) = 19
    /\ Cardinality(DOMAIN stack_map) = 16
    /\ \E h \in held : h[2] = 1

\* --- start-up order ---
\* the steps of _start that start-up's initialisations are, in the order the
\* list of the specification gives them; syscalls::init and load_user_elf
\* are called nowhere in _start and so have no step
BootOrder ==
    << "gdt_init", "init_idt", "PICS_initialize", "pmm_init", "init_mapper",
       "init_heap", "init_timer" >>

StepOf(name) == CHOOSE k \in DOMAIN start_steps : start_steps[k].name = name

\* _start has gone past the step: a call has pushed its frame, an
\* initialisation without a frame has run
Begun(name) == stack # << >> /\ stack[1].pc > StepOf(name)

\* the step has begun and its routine is no longer on the stack above _start
Completed(name) ==
    /\ Begun(name)
    /\ ~ ( /\ stack[1].pc = StepOf(name) + 1
           /\ Len(stack) > 1
           /\ stack[2].fn = name )

\* C17 (as claimed): each initialisation of the list descriptor tables, IDT,
\* PIC, frame allocator, mapper, heap, PIT begins only after every
\* initialisation before it in the list has completed.
C17_BootOrder ==
    \A i, j \in DOMAIN BootOrder :
        i < j /\ Begun(BootOrder[j]) => Completed(BootOrder[i])

\* --- interrupt handlers and locks ---
Handlers == { "timer_handler", "keyboard_handler" }

\* a handler invocation is in progress
InHandler == \E i \in DOMAIN stack : stack[i].fn \in Handlers

\* the handler has just been entered through its gate
HandlerEntered == stack # << >> /\ Top.fn \in Handlers /\ Top.pc = 1

\* the handler is inside notify_end_of_interrupt with PICS taken: the EOI
\* goes out
SendsEoi ==
    /\ InHandler
    /\ Top.fn = "notify_end_of_interrupt"
    /\ Cur.op = "unlock"
    /\ "PICS" \in locks

C19_LowestClearBit ==
    [][ pmm_call'.op = "alloc" /\ pmm_call'.ret # -1 =>
          LET frame_idx == pmm_call'.ret \div 4096
              word_idx == frame_idx \div 64
              bit_idx == frame_idx % 64
          IN  /\ pmm_call'.ret = frame_idx * 4096
              /\ frame_idx < total_frames
              /\ \A w \in 0..(word_idx - 1) : bitmap[w] = 0..63
              /\ \A b \in 0..(bit_idx - 1) : b \in bitmap[word_idx]
              /\ bit_idx \notin bitmap[word_idx]
              /\ bitmap' = [w \in DOMAIN bitmap |->
                               IF w = word_idx THEN bitmap[w] \cup {bit_idx}
                               ELSE bitmap[w]]
      ]_vars

\* frame 2 has just been returned while frame 3 and frame 64, in the next
\* word, were free as well
C19_Witness ==
    /\ pmm_call.op = "alloc"
    /\ pmm_call.ret = 2 * 4096
    /\ BitSet(bitmap, 2)
    /\ ~BitSet(bitmap, 3)
    /\ ~BitSet(bitmap, 64)

\* ceil(total_frames / 64) * 8
BitmapBytes(frames) == ((frames + 63) \div 64) * 8

\* the entries of the firmware map that can take a bitmap of the size
Qualifying(bytes) ==
    { i \in DOMAIN memory_map :
        /\ memory_map[i].type_ = 7
        /\ memory_map[i].phys_start # 0
        /\ memory_map[i].page_count * 4096 >= bytes }

\* C20: init places the bitmap at the physical start of the first entry of
\* the memory map, in map order, of type 7 with a nonzero physical start
\* and page_count * 4096 >= ceil(total_frames / 64) * 8; when no entry
\* qualifies init panics and no bitmap word has been written.
C20_BitmapPlacement ==
    [][ pmm_call'.op = "init" =>
          LET q == Qualifying(BitmapBytes(total_frames'))
          IN  IF q = {}
              THEN pmm_state' = "panicked" /\ bitmap' = << >>
              ELSE /\ pmm_state' = "ready"
                   /\ \E i \in q :
                          /\ \A j \in q : i <= j
                          /\ bitmap_start_addr' = memory_map[i].phys_start
      ]_vars

\* init has passed over a first Conventional entry that does not qualify
\* and placed the bitmap in the second
C20_Witness ==
    /\ pmm_call.op = "init"
    /\ pmm_state = "ready"
    /\ Len(memory_map) = 2
    /\ memory_map[1].type_ = 7
    /\ memory_map[1].page_count = 0
    /\ bitmap_start_addr = memory_map[2].phys_start

\* --- the ring on overflow ---
\* C21: the ring never holds more than BUFFER_SIZE - 1 = 63 unread bytes;
\* the unread bytes lie from tail to head in the order they were stored;
\* an add_scancode that finds 63 bytes unread drops its byte and leaves
\* head, tail and every stored byte as they were.
C21_OverflowDropsNewByte ==
    /\ [](/\ Unread <= BUFFER_SIZE - 1
          /\ (head - tail) % BUFFER_SIZE = Unread
          /\ \A k \in 0..(Unread - 1) :
                 buffer[(tail + k) % BUFFER_SIZE] = accepted[Len(popped) + 1 + k])
    /\ [][ At("push") /\ Unread = BUFFER_SIZE - 1 =>
             /\ head' = head
             /\ tail' = tail
             /\ buffer' = buffer
             /\ accepted' = accepted ]_vars

\* add_scancode has just dropped a byte on a ring with 63 bytes unread, some
\* bytes having been popped before
C21_Witness ==
    /\ stack # << >>
    /\ Top.fn = "add_scancode"
    /\ Cur.op = "unlock"
    /\ Unread = BUFFER_SIZE - 1
    /\ Len(popped) > 0
    /\ accepted[Len(accepted)] # irq_scancode

(***************************************************************************)
(* Claims about the image loader.                                          *)
(***************************************************************************)
\* the LOAD headers with memsz > 0
Loaded == { k \in DOMAIN program_headers :
              program_headers[k].type_ = 1 /\ program_headers[k].memsz > 0 }

\* the pages that intersect [base + vaddr, base + vaddr + memsz) of header k
PagesOfSegment(k) ==
    LET lo == (IF elf_header.is_pie THEN 4194304 ELSE 0) + program_headers[k].vaddr
        hi == lo + program_headers[k].memsz
    IN  { q \in (lo \div 4096)..(hi \div 4096) : q * 4096 < hi /\ (q + 1) * 4096 > lo }

\* C22: after load_user_elf every page that intersects a LOAD segment with
\* memsz > 0 is mapped user-accessible; a page the loop of a segment maps
\* gets WRITABLE exactly when the segment is writable and NO_EXECUTE
\* exactly when it is not executable; a page found mapped is skipped, and
\* no step of the loader changes the frame or the flags of a mapped page
\* or gives it a zeroed frame again.
C22_SegmentPagesMapped ==
    /\ [](load_state = "done" =>
            \A k \in Loaded : \A q \in PagesOfSegment(k) :
                /\ q \in DOMAIN page_table
                /\ page_table[q].flags.present
                /\ page_table[q].flags.user)
    /\ [][ /\ (load_state = "segment" /\ load_page \notin DOMAIN page_table
                 /\ load_page \in DOMAIN page_table') =>
              /\ load_page \in PagesOfSegment(load_seg)
              /\ page_table'[load_page].flags.writable = program_headers[load_seg].w
              /\ page_table'[load_page].flags.no_execute = ~program_headers[load_seg].x
              /\ page_table'[load_page].flags.user
              /\ page_data'[load_page] = << >>
           /\ (load_state = "segment" /\ load_page \in DOMAIN page_table
                 /\ load_page' = load_page + 1) =>
              /\ page_table' = page_table
              /\ page_data' = page_data
              /\ bitmap' = bitmap
           /\ \A q \in DOMAIN page_table :
                 /\ q \in DOMAIN page_table'
                 /\ page_table'[q] = page_table[q]
                 /\ IsPrefix(page_data[q], page_data'[q]) ]_vars

\* the loader has returned; the page where the data segment starts was
\* mapped for the text segment: it is read-only and executable although the
\* writable segment lies on it, and holds bytes of both
C22_Witness ==
    /\ load_state = "done"
    /\ Len(program_headers) = 2
    /\ program_headers[2].w
    /\ \E q \in PagesOfSegment(1) \cap PagesOfSegment(2) :
           /\ ~page_table[q].flags.writable
           /\ ~page_table[q].flags.no_execute
           /\ page_data[q] = << 1, 2 >>
    /\ \E q \in PagesOfSegment(2) : page_table[q].flags.writable

\* C23 (as claimed): after load_user_elf, for every image, every page of the
\* mmap pool [0x480000, 0x500000) and of the heap [0x8000000, 0x8100000) is
\* mapped user-accessible and writable and holds only zero bytes.
C23_PoolAndHeapZeroed ==
    load_state = "done" =>
        \A q \in (1152..1279) \cup (32768..33023) :
            /\ q \in DOMAIN page_table
            /\ page_table[q].flags.user
            /\ page_table[q].flags.writable
            /\ page_data[q] = << >>

(***************************************************************************)
(* Claims about the syscall entry.                                         *)
(***************************************************************************)
PreservedRegs ==
    { "rsp", "rcx", "r11", "rdi", "rsi", "rdx", "r10", "r8", "r9", "rbx",
      "rbp", "r12", "r13", "r14", "r15" }

\* C24 (as claimed): for every syscall that returns, at sysretq RSP, RCX,
\* R11, RDI, RSI, RDX, R10, R8, R9, RBX, RBP and R12-R15 hold the values
\* they had at the syscall instruction, RAX holds the dispatcher's result,
\* and the kernel syscall stack is empty again.
C24_RegistersPreserved ==
    sc_call.returned =>
        /\ \A name \in PreservedRegs :
               exit_regs.regs[name] = entry_regs.regs[name]
        /\ exit_regs.regs.rax = rax
        /\ exit_regs.left = 0

\* C25: from syscall entry until sysretq, or forever for exit, RFLAGS.IF is
\* clear: nothing the dispatcher or its print helpers do sets it, no timer
\* or keyboard handler runs above the syscall's frame, no interrupt is
\* delivered, and there is never a second syscall entry, so the one
\* TEMP_RSP slot and the one kernel syscall stack have one user.
SyscallFrames == { i \in DOMAIN stack : stack[i].fn = "syscall_entry" }
InSyscall == SyscallFrames # {}
C25_SyscallRunsWithIfClear ==
    /\ [](InSyscall =>
            /\ ~interrupts_enabled
            /\ Cardinality(SyscallFrames) = 1
            /\ \A i \in SyscallFrames : \A j \in DOMAIN stack :
                   j > i => stack[j].fn \notin Handlers)
    /\ [][InSyscall =>
            /\ ticks_left' = ticks_left
            /\ keys_left' = keys_left
            /\ (InSyscall' => ~interrupts_enabled')]_vars
    /\ [][(InSyscall /\ halted) => UNCHANGED vars]_vars

\* a print helper of a syscall holds the serial lock inside
\* without_interrupts while both interrupt sources have interrupts to raise
C25_Witness ==
    /\ InSyscall
    /\ Top.fn = "serial_print"
    /\ "SERIAL" \in locks
    /\ Len(stack) = 4
    /\ ticks_left > 0
    /\ keys_left > 0

\* C26: whenever the panic handler is entered, print_panic gets the serial
\* port and writes its message, also when SERIAL1 is held at that moment:
\* it never waits for the lock, and it writes holding the lock with
\* interrupts disabled.
PanicWrites ==
    \E i \in DOMAIN stack : stack[i].fn = "print_panic" /\ stack[i].pc = 3
PanicPrinted ==
    \/ \E i \in DOMAIN stack : stack[i].fn = "print_panic" /\ stack[i].pc > 3
    \/ (Panicking /\ Top.fn = "panic")
C26_PanicPrintNeverBlocks ==
    /\ [](PanicWrites => ("SERIAL" \in locks /\ ~interrupts_enabled))
    /\ (Panicking ~> PanicPrinted)

\* the panic came while serial::_print held SERIAL1, and print_panic has
\* taken the lock
C26_Witness ==
    /\ PanicWrites
    /\ \E i \in DOMAIN stack : stack[i].fn = "serial_print" /\ stack[i].pc = 3

\* C27: the Spinlock excludes: in every interleaving of lock() calls and
\* guard drops at most one SpinlockGuard exists, the flag is true exactly
\* while one exists, a guard is only handed out when the flag was false and
\* no guard existed, to one context that was spinning, and a drop leaves the
\* flag false with no guard, so that one of the waiters' compare_exchange
\* succeeds next; the holders' increments of the data are never lost.
Guards == { c \in Contexts : ctx_pc[c] \in {"guard", "write", "drop"} }
Waiters == { c \in Contexts : ctx_pc[c] = "spin" }
C27_SpinlockExcludes ==
    /\ [](Cardinality(Guards) <= 1 /\ (lock_flag <=> Guards # {}))
    /\ [][(Guards' # Guards /\ Guards' # {}) =>
              /\ ~lock_flag
              /\ Guards = {}
              /\ Cardinality(Guards') = 1
              /\ Guards' \subseteq Waiters]_vars
    /\ [][(Guards # {} /\ Guards' = {}) =>
              /\ ~lock_flag'
              /\ Waiters' = Waiters
              /\ lock_data' = lock_data]_vars
    /\ [][lock_data' # lock_data => lock_data' = lock_data + 1]_vars

\* a context holds the guard after an earlier holder has dropped its own,
\* while the two other contexts spin
C27_Witness ==
    /\ Cardinality(Guards) = 1
    /\ Cardinality(Waiters) = NumContexts - 1
    /\ lock_data > 0

\* C28 (as claimed): whatever 64-bit addr and length the mmap calls are
\* given, MMAP_NEXT never decreases and stays within [0x480000, 0x500000],
\* and a call that returns -12 or that honours a fixed address leaves it as
\* it was.
C28_PoolCursorBounded ==
    /\ [](U64Le(MMAP_START, MMAP_NEXT) /\ U64Le(MMAP_NEXT, MMAP_END))
    /\ [][U64Le(MMAP_NEXT, MMAP_NEXT')]_vars
    /\ [][( /\ sc_call'.nr = SYS_MMAP
            /\ sc_call'.returned
            /\ \/ rax' = I64Neg(12)
               \/ (sc_call'.arg1 # U64(0) /\ U64Le(U64(4096), sc_call'.arg1)) ) =>
          MMAP_NEXT' = MMAP_NEXT]_vars

\* C30 (as claimed): whatever arguments the brk calls are given, the
\* current break stays within the heap region mapped at load time,
\* 0x8000000 <= CURRENT_BRK <= 0x8100000.
C30_BreakInsideHeap ==
    U64Le(HEAP_START, CURRENT_BRK) /\ U64Le(CURRENT_BRK, HEAP_END)

====
